---- MODULE Spec2Model ----
(***************************************************************************)
(* OpenPos (GeekNeuron/OpenPos): a model of                                *)
(*   - fetchOpenPositions, the fetch-with-retry loop of js/api.js,         *)
(*   - validatePositionObject / validatePositionsArray of js/validator.js, *)
(*   - the lazy-loading render controller of js/ui.js,                     *)
(*   - _filterPositionsLogic / _sortPositionsLogic of js/ui.js,            *)
(*   - the filter, search and sort controls (applyFilterAndRender),        *)
(*   - mainApp of js/app.js with the saved settings of js/ui.js,           *)
(*   - translate, setLanguage and initI18n of the i18n module,             *)
(*   - the debounced search handler of js/ui.js with its timeouts.         *)
(* Each component has its own specification over the shared variables.     *)
(***************************************************************************)
EXTENDS Integers, Sequences, FiniteSets, TLC

VARIABLES
    \* ---- fetchOpenPositions (js/api.js) ----
    maxRetries,     \* parameter maxRetries of the call
    uiPresent,      \* window.ui.showToast and translate are functions
    fpc,            \* position of the call: "loop", "inflight", "waiting", "done"
    attempts,       \* local variable attempts
    httpCalls,      \* number of fetch(apiUrl) calls made so far
    waits,          \* number of retry delays started so far
    toasts,         \* retry notifications passed to window.ui.showToast
    responses,      \* what the transport answered to each HTTP attempt
    outcome,        \* settlement of the promise returned by the call
    \* ---- validatePositionsArray (js/validator.js) ----
    positionsData,  \* the argument of validatePositionsArray
    vpc,            \* "ready" before the call, "returned" or "threw" after it
    vresult,        \* the value returned by validatePositionsArray
    \* ---- render controller (js/ui.js) ----
    currentlyDisplayedPositions,  \* the display list
    currentRenderIndex,           \* the cursor
    grid,                         \* children of #positions-grid, in order
    observing,                    \* the live IntersectionObserver observes the sentinel
    queuedEntries,                \* intersecting entries queued, callback not yet run
    lastOp,                       \* the handler of the controller that ran last
    emptyState,                   \* message key shown in #no-positions-message, "" when hidden
    gridShown,                    \* #positions-grid is displayed (style.display is not 'none')
    \* ---- validatePositionObject (js/validator.js) ----
    inputObject,    \* the argument of validatePositionObject
    opc,            \* "ready" before the call, "returned" after it
    oresult,        \* the value returned by validatePositionObject
    \* ---- _filterPositionsLogic / _sortPositionsLogic (js/ui.js) ----
    inputList,      \* the array a caller passes, as the caller sees it
    fsCall,         \* the call made last: function, arguments, array passed
    fsResult,       \* the array returned by the call made last
    \* ---- filter, search and sort controls (js/ui.js) ----
    allFetchedPositions,  \* the stored list of all fetched positions
    loaded,               \* displayPositions has stored a fetched list
    searchTimer,          \* the debounce timer of the search box is pending
    typeFilterValue,      \* typeFilterElement.value
    symbolSearchValue,    \* symbolSearchElement.value
    sortByValue,          \* sortByElement.value
    uiSettings,           \* localStorage item 'openPosUiSettings'
    \* ---- mainApp (js/app.js) ----
    apc,                \* "start" before mainApp runs, "fetching" at the await, "done"
    fetched,            \* settlement of the fetchOpenPositions call mainApp awaits
    loadingIndicator,   \* #loading-indicator is shown
    errorMessage,       \* message key shown in #error-message, "" when hidden
    appCalls,           \* collaborator calls mainApp has made, in order
    \* ---- i18n (js/i18n.js) ----
    currentLanguage,    \* window.currentLanguage
    translations,       \* the translations object: per language a dictionary or NotLoaded
    preferredLanguage,  \* localStorage item 'preferredLanguage', "" when absent
    page,               \* what applyTranslationsToPage wrote last: html lang and title text
    langToggle,         \* initI18n has attached the click listener of the language toggle
    langCalls,          \* the setLanguage calls that await loadTranslations, oldest first
    trCall,             \* the translate call made last: key and vars argument
    trResult,           \* the string the translate call made last returned
    \* ---- debounce of the search box (js/ui.js) ----
    timers,             \* remaining time of the pending timeouts of the debounced handler
    timeoutLive,        \* the timeout the closure variable `timeout` names is pending
    sinceInput,         \* time since the last input event, up to DebounceWait
    inputEvents,        \* input events since the debounced function last ran
    searchRuns          \* executions of the debounced function since the last input event

fetchVars    == <<maxRetries, uiPresent, fpc, attempts, httpCalls, waits, toasts,
                  responses, outcome>>
validateVars == <<positionsData, vpc, vresult>>
renderVars   == <<currentlyDisplayedPositions, currentRenderIndex, grid, observing,
                  queuedEntries, lastOp, emptyState, gridShown>>
objectVars   == <<inputObject, opc, oresult>>
filterSortVars == <<inputList, fsCall, fsResult>>
uiVars       == <<allFetchedPositions, loaded, searchTimer, typeFilterValue,
                  symbolSearchValue, sortByValue, uiSettings>>
appVars      == <<apc, fetched, loadingIndicator, errorMessage, appCalls>>
i18nVars     == <<currentLanguage, translations, preferredLanguage, page, langToggle,
                  langCalls, trCall, trResult>>
debounceVars == <<timers, timeoutLive, sinceInput, inputEvents, searchRuns>>
vars == <<fetchVars, validateVars, renderVars, objectVars, filterSortVars, uiVars,
          appVars, i18nVars, debounceVars>>

\* What the steps of one component leave unchanged
notFetchVars    == <<validateVars, renderVars, objectVars, filterSortVars, uiVars, appVars,
                     i18nVars, debounceVars>>
notValidateVars == <<fetchVars, renderVars, objectVars, filterSortVars, uiVars, appVars,
                     i18nVars, debounceVars>>
notRenderVars   == <<fetchVars, validateVars, objectVars, filterSortVars, uiVars, appVars,
                     i18nVars, debounceVars>>

Min(a, b) == IF a < b THEN a ELSE b

(***************************************************************************)
(* Bounds of the model.                                                    *)
(***************************************************************************)
MaxRetriesBound == 3
MaxArrayLen == 3
MaxListLen == 31
MaxQueued == 2
MaxPositions == 3
MaxFetched == 2
MaxLangCalls == 2
MaxInputs == 3

\* debounce(window.ui.applyFilterAndRender, 300), in units of 100 ms
DebounceWait == 3

(***************************************************************************)
(*                    fetchOpenPositions  (js/api.js)                      *)
(***************************************************************************)

\* HTTP statuses the server may answer with.
Statuses == {200, 400, 401, 404, 500, 503}

\* Bodies of a response: a JSON array (two distinguishable payloads), a JSON
\* value that is not an array, or text that is not JSON.
Bodies == {"array1", "array2", "object", "notjson"}

\* What one fetch(apiUrl, {signal: AbortSignal.timeout(10000)}) can end in.
Transport ==
    [kind : {"http"}, status : Statuses, body : Bodies]
    \cup {[kind |-> "network", status |-> 0, body |-> "notjson"],
          [kind |-> "timeout", status |-> 0, body |-> "notjson"]}

\* response.ok
ResponseOk(r) == r.status >= 200 /\ r.status <= 299

IsServerStatusMutant(status) == status >= 400 /\ status <= 599
\* response.status >= 500 && response.status <= 599
IsServerStatus(status) == status >= 500 /\ status <= 599

IsArrayBodyInverted(body) == body \notin {"array1", "array2"}
IsArrayBodyAlways(body) == body \in {"array1", "array2", "object"}
\* Array.isArray(data) for the parsed body
IsArrayBody(body) == body \in {"array1", "array2"}

NoError == [kind |-> "none", status |-> 0, at |-> 0, isClientError |-> FALSE]
Thrown(kind, status, at, client) ==
    [kind |-> kind, status |-> status, at |-> at, isClientError |-> client]

\* The try block with an attempt ended by the timeout thrown as a client error
TryBlockTimeoutTerminal(r, at) ==
    IF r.kind = "network" THEN Thrown("network", 0, at, FALSE)
    ELSE IF r.kind = "timeout" THEN Thrown("timeout", 0, at, TRUE)
    ELSE IF ~ResponseOk(r)
         THEN IF IsServerStatus(r.status)
              THEN Thrown("server", r.status, at, FALSE)
              ELSE Thrown("client", r.status, at, TRUE)
    ELSE IF r.body = "notjson" THEN Thrown("syntax", r.status, at, FALSE)
    ELSE IF ~IsArrayBody(r.body) THEN Thrown("malformed", r.status, at, FALSE)
    ELSE NoError

\* The body of the try block for the attempt numbered at: the error it throws,
\* or NoError when it returns data.
TryBlock(r, at) ==
    IF r.kind = "network" THEN Thrown("network", 0, at, FALSE)
    ELSE IF r.kind = "timeout" THEN Thrown("timeout", 0, at, FALSE)
    ELSE IF ~ResponseOk(r)
         THEN IF IsServerStatus(r.status)
              THEN Thrown("server", r.status, at, FALSE)
              ELSE Thrown("client", r.status, at, TRUE)
    ELSE IF r.body = "notjson" THEN Thrown("syntax", r.status, at, FALSE)
    ELSE IF ~IsArrayBody(r.body) THEN Thrown("malformed", r.status, at, FALSE)
    ELSE NoError

Pending == [state |-> "pending", data |-> "none", error |-> NoError, cause |-> NoError]
Resolved(data) == [state |-> "resolved", data |-> data, error |-> NoError, cause |-> NoError]
Rejected(error, cause) == [state |-> "rejected", data |-> "none", error |-> error, cause |-> cause]

FinalErrorCauseMutant(error, first) == first
\* finalError.cause = error
FinalErrorCause(error, first) == error

RetriesExhaustedMutant(n, max) == n > max
\* attempts >= maxRetries
RetriesExhausted(n, max) == n >= max

InitFetch ==
    /\ maxRetries \in 0..MaxRetriesBound
    /\ uiPresent \in BOOLEAN
    /\ fpc = "loop"
    /\ attempts = 0
    /\ httpCalls = 0
    /\ waits = 0
    /\ toasts = <<>>
    /\ responses = <<>>
    /\ outcome = Pending

\* while (attempts < maxRetries) { try { ... await fetch(apiUrl, ...)
StartAttempt ==
    /\ fpc = "loop"
    /\ attempts < maxRetries
    /\ httpCalls' = httpCalls + 1
    /\ fpc' = "inflight"
    /\ UNCHANGED <<maxRetries, uiPresent, attempts, waits, toasts, responses, outcome>>
    /\ UNCHANGED notFetchVars

\* The loop condition fails: throw new Error('Exhausted retries ... unexpected state.')
FallbackThrow ==
    /\ fpc = "loop"
    /\ ~(attempts < maxRetries)
    /\ outcome' = Rejected(Thrown("unexpected", 0, 0, FALSE), NoError)
    /\ fpc' = "done"
    /\ UNCHANGED <<maxRetries, uiPresent, attempts, httpCalls, waits, toasts, responses>>
    /\ UNCHANGED notFetchVars

\* The awaited fetch settles with r; the rest of the try block and the catch
\* block run up to the return, the throw or the retry delay.
AttemptSettles(r) ==
    /\ fpc = "inflight"
    /\ responses' = Append(responses, r)
    /\ LET error == TryBlock(r, attempts + 1)
           first == IF responses = <<>> THEN error ELSE TryBlock(responses[1], 1)
       IN IF error = NoError
          THEN /\ outcome' = Resolved(r.body)
               /\ fpc' = "done"
               /\ UNCHANGED <<attempts, waits, toasts>>
          ELSE /\ attempts' = attempts + 1
               /\ IF error.isClientError
                  THEN /\ outcome' = Rejected(error, NoError)
                       /\ fpc' = "done"
                       /\ UNCHANGED <<waits, toasts>>
                  ELSE IF RetriesExhausted(attempts', maxRetries)
                  THEN /\ outcome' = Rejected(Thrown("exhausted", 0, attempts', FALSE),
                                              FinalErrorCause(error, first))
                       /\ fpc' = "done"
                       /\ UNCHANGED <<waits, toasts>>
                  ELSE /\ toasts' = IF uiPresent
                                    THEN Append(toasts, [attempt |-> attempts' + 1,
                                                         max |-> maxRetries])
                                    ELSE toasts
                       /\ waits' = waits + 1
                       /\ fpc' = "waiting"
                       /\ UNCHANGED outcome
    /\ UNCHANGED <<maxRetries, uiPresent, httpCalls>>
    /\ UNCHANGED notFetchVars

\* await new Promise(resolve => setTimeout(resolve, retryDelayMs)) resolves
DelayElapses ==
    /\ fpc = "waiting"
    /\ fpc' = "loop"
    /\ UNCHANGED <<maxRetries, uiPresent, attempts, httpCalls, waits, toasts,
                   responses, outcome>>
    /\ UNCHANGED notFetchVars

NextFetch ==
    \/ StartAttempt
    \/ FallbackThrow
    \/ \E r \in Transport : AttemptSettles(r)
    \/ DelayElapses

(***************************************************************************)
(* The components that take no step in a specification stay in these       *)
(* states.                                                                 *)
(***************************************************************************)
IdleFetch ==
    /\ maxRetries = 0 /\ uiPresent = FALSE /\ fpc = "done" /\ attempts = 0
    /\ httpCalls = 0 /\ waits = 0 /\ toasts = <<>> /\ responses = <<>>
    /\ outcome = Pending
IdleValidate ==
    /\ positionsData = [t |-> "array", items |-> <<>>]
    /\ vpc = "idle"
    /\ vresult = [threw |-> FALSE, isValid |-> FALSE, validatedPositions |-> <<>>,
                  errors |-> <<>>]
IdleRender ==
    /\ currentlyDisplayedPositions = <<>> /\ currentRenderIndex = 0 /\ grid = <<>>
    /\ observing = FALSE /\ queuedEntries = 0
    /\ lastOp = [op |-> "none", list |-> 0, len |-> 0, prev |-> 0]
    /\ emptyState = "" /\ gridShown = TRUE
IdleObject ==
    /\ inputObject = [t |-> "undefined", s |-> <<>>, n |-> 0]
    /\ opc = "idle"
    /\ oresult = [isValid |-> FALSE, errors |-> <<>>]
IdleFilterSort ==
    /\ inputList = <<>>
    /\ fsCall = [fn |-> "none", filterTypeValue |-> "", searchTerm |-> <<>>,
                 sortValue |-> "", positions |-> <<>>, nth |-> 0, priorSort |-> "",
                 priorInput |-> <<>>]
    /\ fsResult = <<>>
IdleUi ==
    /\ allFetchedPositions = <<>> /\ loaded = FALSE /\ searchTimer = FALSE
    /\ typeFilterValue = <<"a", "l", "l">> /\ symbolSearchValue = <<>>
    /\ sortByValue = "default"
    /\ uiSettings = [saved |-> FALSE, typeFilter |-> <<>>, symbolSearch |-> <<>>,
                     sortBy |-> ""]

NotFetched == [state |-> "pending", raw |-> <<>>,
               error |-> [kind |-> "none", status |-> 0, at |-> 0, isClientError |-> FALSE],
               cause |-> [kind |-> "none", status |-> 0, at |-> 0, isClientError |-> FALSE],
               message |-> <<>>]
IdleApp ==
    /\ apc = "start" /\ fetched = NotFetched /\ loadingIndicator = TRUE
    /\ errorMessage = "" /\ appCalls = <<>>

\* let translations = {}: translations[lang] is undefined for every language
NoTranslations == [lang \in {"en", "fa"} |-> [t |-> "undefined", s |-> <<>>, n |-> 0]]
\* The vars argument of translate: per variable name the replacement text,
\* NotGiven for a name the object does not have
NotGiven == "(not given)"
NoVars == [name |-> NotGiven]
NoTrCall == [made |-> FALSE, key |-> <<>>, values |-> NoVars]
\* index.html as served
StaticPage == [lang |-> "en", headerTitle |-> <<"Open Positions">>]
IdleI18n ==
    /\ currentLanguage = "en" /\ translations = NoTranslations
    /\ preferredLanguage = "" /\ page = StaticPage /\ langToggle = FALSE
    /\ langCalls = <<>> /\ trCall = NoTrCall /\ trResult = <<>>
IdleDebounce ==
    /\ timers = <<>> /\ timeoutLive = FALSE /\ sinceInput = DebounceWait
    /\ inputEvents = 0 /\ searchRuns = 0

FetchInit ==
    InitFetch /\ IdleValidate /\ IdleRender /\ IdleObject /\ IdleFilterSort /\ IdleUi
    /\ IdleApp /\ IdleI18n /\ IdleDebounce
SpecFetch == FetchInit /\ [][NextFetch]_vars

(***************************************************************************)
(* Claims about fetchOpenPositions.                                        *)
(***************************************************************************)
Is4xx(r) == r.kind = "http" /\ r.status >= 400 /\ r.status <= 499
Is5xx(r) == r.kind = "http" /\ r.status >= 500 /\ r.status <= 599
IsOkArray(r) == r.kind = "http" /\ r.status = 200 /\ r.body \in {"array1", "array2"}
IsOkNonArray(r) == r.kind = "http" /\ r.status = 200 /\ r.body = "object"
RetryableFailure(r) == Is5xx(r) \/ r.kind \in {"network", "timeout"}

\* C1: when an attempt receives an HTTP 4xx response (attempt i, any
\* maxRetries >= 1), the call has failed with an error flagged isClientError,
\* and no HTTP attempt, retry delay or retry notification follows the response:
\* the counters stay at i attempts, i-1 waits and the notifications of the
\* i-1 earlier failures.
C1_ClientErrorTerminal ==
    \A i \in 1..Len(responses) :
        Is4xx(responses[i]) =>
            /\ maxRetries >= 1
            /\ i = Len(responses)
            /\ fpc = "done"
            /\ outcome.state = "rejected"
            /\ outcome.error.isClientError
            /\ outcome.error.status = responses[i].status
            /\ httpCalls = i
            /\ waits = i - 1
            /\ Len(toasts) = (IF uiPresent THEN i - 1 ELSE 0)

\* C1 witness: a 4xx answer to a second or later attempt has ended the call.
C1_Witness ==
    /\ Len(responses) >= 2
    /\ Is4xx(responses[Len(responses)])
    /\ fpc = "done"
    /\ uiPresent

\* C2: if attempts 1..k-1 each failed with a retryable failure (5xx, network
\* error, timeout) and attempt k (k <= maxRetries) answered 200 with an array,
\* the call has resolved with that array after exactly k HTTP attempts and
\* exactly k-1 retry delays.
C2_SuccessAfterRetries ==
    \A k \in 1..Len(responses) :
        (/\ k <= maxRetries
         /\ \A i \in 1..(k - 1) : RetryableFailure(responses[i])
         /\ IsOkArray(responses[k]))
        => /\ Len(responses) = k
           /\ fpc = "done"
           /\ outcome = Resolved(responses[k].body)
           /\ httpCalls = k
           /\ waits = k - 1

\* C2 witness: 500, 500, 200 with maxRetries = 3 has resolved after two waits.
C2_Witness ==
    /\ maxRetries = 3
    /\ Len(responses) = 3
    /\ Is5xx(responses[1]) /\ Is5xx(responses[2]) /\ IsOkArray(responses[3])
    /\ outcome.state = "resolved"
    /\ waits = 2

\* C3: if the call has ended and every one of its attempts failed with a
\* retryable failure, it made exactly maxRetries HTTP attempts and exactly
\* maxRetries-1 waits, and it was rejected with the exhausted-retries error
\* whose cause is the error of attempt maxRetries.
C3_ExhaustedRetries ==
    (/\ fpc = "done"
     /\ responses # <<>>
     /\ \A i \in 1..Len(responses) : RetryableFailure(responses[i]))
    => /\ httpCalls = maxRetries
       /\ Len(responses) = maxRetries
       /\ waits = maxRetries - 1
       /\ outcome.state = "rejected"
       /\ outcome.error.kind = "exhausted"
       /\ outcome.cause.at = maxRetries
       /\ outcome.cause.kind =
            (IF Is5xx(responses[maxRetries]) THEN "server"
             ELSE responses[maxRetries].kind)
       /\ outcome.cause.status = responses[maxRetries].status

\* C3 witness: three retryable failures of different kinds, the last one a
\* timeout, have exhausted maxRetries = 3.
C3_Witness ==
    /\ maxRetries = 3
    /\ fpc = "done"
    /\ Len(responses) = 3
    /\ Is5xx(responses[1])
    /\ responses[2].kind = "network"
    /\ responses[3].kind = "timeout"
    /\ outcome.error.kind = "exhausted"

renderBatchSize == 15

\* The display lists handed to renderPositions: list number g of length n.
\* Items of different lists are different positions.
Generations == {1, 2}
MkList(g, n) == [i \in 1..n |-> [list |-> g, item |-> i]]

\* Children of #positions-grid: a position card, or the load-more sentinel.
Card(position) == [el |-> "card", position |-> position]
Sentinel == [el |-> "sentinel", position |-> [list |-> 0, item |-> 0]]

IsCard(e) == e.el = "card"
Cards(g) == SelectSeq(g, IsCard)
CardPositions(g) == [i \in 1..Len(Cards(g)) |-> Cards(g)[i].position]
IsSentinel(e) == e.el = "sentinel"
HasSentinel(g) == \E i \in 1..Len(g) : IsSentinel(g[i])

\* The controller state the handlers work on:
\*   list  - currentlyDisplayedPositions     index - currentRenderIndex
\*   grid  - children of positionsGridElement
\*   observing - intersectionObserver observes the sentinel
\*   touched - the handler called disconnect() or unobserve(), after which
\*             the platform may have discarded entries queued for delivery
Controller(list, index, g, obs, touched) ==
    [list |-> list, index |-> index, grid |-> g, observing |-> obs, touched |-> touched]

\* Array.prototype.slice(start, end) on a sequence (0-based, end exclusive)
Slice(seq, start, end) == SubSeq(seq, start + 1, Min(end, Len(seq)))

\* removeSentinel(): document.getElementById finds the first sentinel
RemoveFirstSentinel(g) ==
    LET at == CHOOSE i \in 1..Len(g) : IsSentinel(g[i]) /\ \A j \in 1..(i - 1) : ~IsSentinel(g[j])
    IN SubSeq(g, 1, at - 1) \o SubSeq(g, at + 1, Len(g))

removeSentinel(c) ==
    IF HasSentinel(c.grid)
    THEN [c EXCEPT !.grid = RemoveFirstSentinel(c.grid),
                   !.observing = IF HasSentinel(RemoveFirstSentinel(c.grid))
                                 THEN c.observing ELSE FALSE,
                   !.touched = TRUE]
    ELSE c

\* observeSentinel that creates the observer and never calls observe()
observeSentinelNoObserve(c) == [c EXCEPT !.touched = TRUE]
\* observeSentinel(sentinel): disconnect the old observer, observe with a new one
observeSentinel(c) == [c EXCEPT !.observing = TRUE, !.touched = TRUE]

createAndAppendSentinelNoRemove(c) ==
    IF c.index < Len(c.list)
    THEN observeSentinel([c EXCEPT !.grid = Append(c.grid, Sentinel)])
    ELSE c
\* createAndAppendSentinel()
createAndAppendSentinel(c) ==
    LET r == removeSentinel(c)
    IN IF r.index < Len(r.list)
       THEN observeSentinel([r EXCEPT !.grid = Append(r.grid, Sentinel)])
       ELSE r

\* renderBatchOfCards(positionsToRenderInBatch, append)
renderBatchOfCards(c, batch, append) ==
    LET base == IF append THEN c.grid ELSE <<>>
    IN [c EXCEPT !.grid = base \o [i \in 1..Len(batch) |-> Card(batch[i])]]

renderNextBatchFixedStep(c) ==
    LET nextBatch == Slice(c.list, c.index, c.index + renderBatchSize)
        rendered  == renderBatchOfCards(c, nextBatch, TRUE)
    IN createAndAppendSentinel([rendered EXCEPT !.index = c.index + renderBatchSize])
\* renderNextBatch()
renderNextBatch(c) ==
    LET nextBatch == Slice(c.list, c.index, c.index + renderBatchSize)
        rendered  == renderBatchOfCards(c, nextBatch, TRUE)
    IN createAndAppendSentinel([rendered EXCEPT !.index = c.index + Len(nextBatch)])

renderPositionsKeepGrid(c, positionsToDisplay) ==
    LET reset == removeSentinel([c EXCEPT !.list = positionsToDisplay, !.index = 0,
                                          !.observing = FALSE, !.touched = TRUE])
    IN IF Len(positionsToDisplay) = 0 THEN reset ELSE renderNextBatch(reset)
renderPositionsKeepIndex(c, positionsToDisplay) ==
    LET reset == removeSentinel([c EXCEPT !.list = positionsToDisplay,
                                          !.observing = FALSE, !.touched = TRUE,
                                          !.grid = <<>>])
    IN IF Len(positionsToDisplay) = 0 THEN reset ELSE renderNextBatch(reset)
\* window.ui.renderPositions(positionsToDisplay), up to the first batch
renderPositions(c, positionsToDisplay) ==
    LET reset == removeSentinel([c EXCEPT !.list = positionsToDisplay, !.index = 0,
                                          !.observing = FALSE, !.touched = TRUE,
                                          !.grid = <<>>])
    IN IF Len(positionsToDisplay) = 0 THEN reset ELSE renderNextBatch(reset)

\* The empty-state branch of renderPositions: the key of the message shown
\* in #no-positions-message for an empty positionsToDisplay, "" (container
\* hidden) otherwise.  window.ui.isLoading is assigned nowhere, so
\* !window.ui.isLoading is true.
noPositionsMessageKeyFilterFirst(positionsToDisplay, stored, filterType, searchTerm) ==
    IF Len(positionsToDisplay) # 0 THEN ""
    ELSE IF filterType # <<"a", "l", "l">>
            \/ \E i \in 1..Len(searchTerm) : searchTerm[i] # " "
         THEN "noPositionsMatchFilter"
    ELSE "noPositionsMessage"
noPositionsMessageKey(positionsToDisplay, stored, currentFilterType, currentSearchTerm) ==
    IF Len(positionsToDisplay) # 0 THEN ""
    ELSE IF Len(stored) = 0 THEN "noPositionsMessage"
    ELSE IF currentFilterType # <<"a", "l", "l">>
            \/ \E i \in 1..Len(currentSearchTerm) : currentSearchTerm[i] # " "
         THEN "noPositionsMatchFilter"
    ELSE "noPositionsMessage"

CurrentController ==
    Controller(currentlyDisplayedPositions, currentRenderIndex, grid, observing, FALSE)

\* The handler has ended in controller state c; kept of the entries that were
\* queued are still queued.
Install(c, kept) ==
    /\ currentlyDisplayedPositions' = c.list
    /\ currentRenderIndex' = c.index
    /\ grid' = c.grid
    /\ observing' = c.observing
    /\ queuedEntries' = kept

InitRender ==
    /\ currentlyDisplayedPositions = <<>>
    /\ currentRenderIndex = 0
    /\ grid = <<>>
    /\ observing = FALSE
    /\ queuedEntries = 0
    /\ lastOp = [op |-> "none", list |-> 0, len |-> 0, prev |-> 0]
    /\ emptyState = ""
    /\ gridShown = TRUE

\* A caller replaces the display list: window.ui.renderPositions(MkList(g, n)).
\* disconnect() may or may not discard the entries the old observer had queued.
RenderPositions(g, n) ==
    /\ LET c == renderPositions(CurrentController, MkList(g, n))
       IN \E kept \in 0..queuedEntries : Install(c, kept)
    /\ lastOp' = [op |-> "renderPositions", list |-> g, len |-> n,
                  prev |-> currentRenderIndex]
    /\ emptyState' = noPositionsMessageKey(MkList(g, n), allFetchedPositions,
                                           typeFilterValue, symbolSearchValue)
    /\ gridShown' = (n # 0)
    /\ UNCHANGED notRenderVars

\* The near-end signal: the observed sentinel comes within 100px of the
\* viewport and the observer queues an intersecting entry.
SentinelIntersects ==
    /\ observing
    /\ queuedEntries < MaxQueued
    /\ queuedEntries' = queuedEntries + 1
    /\ UNCHANGED <<currentlyDisplayedPositions, currentRenderIndex, grid, observing, lastOp,
                   emptyState, gridShown>>
    /\ UNCHANGED notRenderVars

\* The observer callback runs for one queued intersecting entry:
\* intersectionObserver.unobserve(entry.target); renderNextBatch().
ObserverCallback ==
    /\ queuedEntries > 0
    /\ LET c == renderNextBatch(CurrentController)
       IN \E kept \in 0..(queuedEntries - 1) :
             /\ (~c.touched => kept = queuedEntries - 1)
             /\ Install(c, kept)
    /\ lastOp' = [op |-> "renderNextBatch", list |-> 0, len |-> 0,
                  prev |-> currentRenderIndex]
    /\ UNCHANGED <<emptyState, gridShown>>
    /\ UNCHANGED notRenderVars

NextRender ==
    \/ \E g \in Generations, n \in 0..MaxListLen : RenderPositions(g, n)
    \/ SentinelIntersects
    \/ ObserverCallback

RenderInit ==
    InitRender /\ IdleFetch /\ IdleValidate /\ IdleObject /\ IdleFilterSort /\ IdleUi
    /\ IdleApp /\ IdleI18n /\ IdleDebounce
SpecRender == RenderInit /\ [][NextRender]_vars

(***************************************************************************)
(* Claims about the render controller.                                     *)
(***************************************************************************)
SentinelCount(g) == Cardinality({i \in 1..Len(g) : IsSentinel(g[i])})

\* C5: after any sequence of renderPositions, renderNextBatch and near-end
\* events (entries queued for a replaced list included), the rendered cards
\* are exactly the items displayList[0 .. cursor) of the current display list,
\* in order, with 0 <= cursor <= length: no card of a replaced list remains
\* or is appended.
C5_RenderedIsPrefix ==
    /\ 0 <= currentRenderIndex
    /\ currentRenderIndex <= Len(currentlyDisplayedPositions)
    /\ CardPositions(grid) = SubSeq(currentlyDisplayedPositions, 1, currentRenderIndex)

\* C5 witness: list 2 fits in one batch, so it never had a sentinel; the
\* renderNextBatch that ran last was triggered by an entry queued for the list
\* it replaced, and the cards are still exactly the items of list 2.
C5_Witness ==
    /\ lastOp.op = "renderNextBatch"
    /\ Len(currentlyDisplayedPositions) \in 1..renderBatchSize
    /\ currentlyDisplayedPositions[1].list = 2
    /\ Len(Cards(grid)) = Len(currentlyDisplayedPositions)

\* C6: each renderNextBatch call (a step of the observer callback, which
\* takes one entry off the queue) appends exactly the cards of the items
\* [cursor, min(cursor+15, length)) and advances the cursor by their number;
\* with cursor = length it renders nothing and leaves the cursor unchanged.
C6_BatchStep ==
    [][(lastOp'.op = "renderNextBatch" /\ queuedEntries' < queuedEntries) =>
         /\ currentlyDisplayedPositions' = currentlyDisplayedPositions
         /\ CardPositions(grid') =
               CardPositions(grid) \o
               SubSeq(currentlyDisplayedPositions, currentRenderIndex + 1,
                      Min(currentRenderIndex + 15, Len(currentlyDisplayedPositions)))
         /\ currentRenderIndex' =
               Min(currentRenderIndex + 15, Len(currentlyDisplayedPositions))
         /\ (currentRenderIndex = Len(currentlyDisplayedPositions) =>
                /\ currentRenderIndex' = currentRenderIndex
                /\ grid' = grid)]_vars

\* C6 witness: a 31-item list is fully rendered (cursor 15, 30, 31) and one
\* more renderNextBatch call has run with cursor = length.
C6_Witness ==
    /\ lastOp.op = "renderNextBatch"
    /\ Len(currentlyDisplayedPositions) = 31
    /\ lastOp.prev = 31
    /\ currentRenderIndex = 31
    /\ Len(Cards(grid)) = 31

\* C7 (as stated): when renderPositions returns, the display list is the new
\* list, the cursor is 0 and no card is rendered.
C7_Original ==
    lastOp.op = "renderPositions" =>
        /\ currentlyDisplayedPositions = MkList(lastOp.list, lastOp.len)
        /\ currentRenderIndex = 0
        /\ Cards(grid) = <<>>

\* C7 (amended): renderPositions replaces the display list, discards the
\* previous cursor and the previous cards and renders the first batch of the
\* new list: when it returns the cursor is min(15, length) and the cards are
\* the items [0, min(15, length)) of the new list, whatever the previous
\* cursor was.
C7_ResetThenFirstBatch ==
    lastOp.op = "renderPositions" =>
        /\ currentlyDisplayedPositions = MkList(lastOp.list, lastOp.len)
        /\ currentRenderIndex = Min(15, lastOp.len)
        /\ CardPositions(grid) = SubSeq(MkList(lastOp.list, lastOp.len), 1, Min(15, lastOp.len))

\* C7 witness: renderPositions has replaced a list whose cursor was 30.
C7_Witness ==
    /\ lastOp.op = "renderPositions"
    /\ lastOp.prev = 30
    /\ lastOp.len > 15

\* C8: after every renderNextBatch and every renderPositions the load-more
\* sentinel is present, and observed, if and only if cursor < length, and the
\* grid never holds more than one sentinel.
C8_SentinelIffMore ==
    /\ SentinelCount(grid) <= 1
    /\ HasSentinel(grid) <=> currentRenderIndex < Len(currentlyDisplayedPositions)
    /\ observing <=> HasSentinel(grid)
    /\ HasSentinel(grid) => IsSentinel(grid[Len(grid)])

\* C8 witness: the last batch has been rendered by renderNextBatch and the
\* sentinel that was present before it is gone.
C8_Witness ==
    /\ lastOp.op = "renderNextBatch"
    /\ lastOp.prev < currentRenderIndex
    /\ currentRenderIndex = Len(currentlyDisplayedPositions)
    /\ ~HasSentinel(grid)
    /\ ~observing

(***************************************************************************)
(*     validatePositionObject / validatePositionsArray (js/validator.js)   *)
(***************************************************************************)

\* JavaScript values. A string is the sequence of its characters; a number is
\* an integer. t is the kind of value: "undefined", "null", "number",
\* "string", "boolean" or "object".
Undefined == [t |-> "undefined", s |-> <<>>, n |-> 0]
Null      == [t |-> "null", s |-> <<>>, n |-> 0]
Num(k)    == [t |-> "number", s |-> <<>>, n |-> k]
Str(cs)   == [t |-> "string", s |-> cs, n |-> 0]
Bool(b)   == [t |-> "boolean", s |-> <<>>, n |-> IF b THEN 1 ELSE 0]
EmptyObject == [t |-> "object", s |-> <<>>, n |-> 0]

\* typeof value
TypeOf(v) == IF v.t = "null" THEN "object" ELSE v.t

UpperLetters == <<"A","B","C","D","E","F","G","H","I","J","K","L","M",
                  "N","O","P","Q","R","S","T","U","V","W","X","Y","Z">>
LowerLetters == <<"a","b","c","d","e","f","g","h","i","j","k","l","m",
                  "n","o","p","q","r","s","t","u","v","w","x","y","z">>
Digits == <<"0","1","2","3","4","5","6","7","8","9">>

UpperToLower ==
    [c \in {UpperLetters[i] : i \in 1..Len(UpperLetters)} |->
        LowerLetters[CHOOSE i \in 1..Len(UpperLetters) : UpperLetters[i] = c]]
LowerChar(c) == IF c \in DOMAIN UpperToLower THEN UpperToLower[c] ELSE c
\* String.prototype.toLowerCase()
ToLowerCase(cs) == [i \in 1..Len(cs) |-> LowerChar(cs[i])]

IsSpace(c) == c = " "
\* String.prototype.trim()
Trim(cs) ==
    IF \A i \in 1..Len(cs) : IsSpace(cs[i]) THEN <<>>
    ELSE LET first == CHOOSE i \in 1..Len(cs) :
                         ~IsSpace(cs[i]) /\ \A j \in 1..(i - 1) : IsSpace(cs[j])
             last  == CHOOSE i \in 1..Len(cs) :
                         ~IsSpace(cs[i]) /\ \A j \in (i + 1)..Len(cs) : IsSpace(cs[j])
         IN SubSeq(cs, first, last)

IsDigit(c) == \E i \in 1..Len(Digits) : Digits[i] = c
DigitValue(c) == (CHOOSE i \in 1..Len(Digits) : Digits[i] = c) - 1

RECURSIVE DecimalDigits(_)
DecimalDigits(k) ==
    IF k < 10 THEN <<Digits[k + 1]>>
    ELSE Append(DecimalDigits(k \div 10), Digits[(k % 10) + 1])
\* String(number)
NumberToString(k) == IF k < 0 THEN <<"-">> \o DecimalDigits(0 - k) ELSE DecimalDigits(k)

\* String(value)
StringOf(v) ==
    CASE v.t = "string"    -> v.s
      [] v.t = "number"    -> NumberToString(v.n)
      [] v.t = "boolean"   -> IF v.n = 1 THEN <<"t","r","u","e">> ELSE <<"f","a","l","s","e">>
      [] v.t = "null"      -> <<"n","u","l","l">>
      [] v.t = "undefined" -> <<"u","n","d","e","f","i","n","e","d">>
      [] OTHER -> <<"[","o","b","j","e","c","t"," ","O","b","j","e","c","t","]">>

\* Truthiness of a value (the left operand of ||)
Truthy(v) ==
    CASE v.t = "string"  -> v.s # <<>>
      [] v.t = "number"  -> v.n # 0
      [] v.t = "boolean" -> v.n = 1
      [] v.t = "object"  -> TRUE
      [] OTHER -> FALSE

\* A decimal integer literal with an optional sign, blanks around it allowed:
\* the strings of the model for which Number(value) is finite.
Unsigned(cs) == IF cs # <<>> /\ cs[1] \in {"-", "+"} THEN Tail(cs) ELSE cs
IsNumericLiteral(cs) ==
    LET body == Unsigned(Trim(cs))
    IN body # <<>> /\ \A i \in 1..Len(body) : IsDigit(body[i])

RECURSIVE DigitsValue(_)
DigitsValue(cs) ==
    IF cs = <<>> THEN 0
    ELSE 10 * DigitsValue(SubSeq(cs, 1, Len(cs) - 1)) + DigitValue(cs[Len(cs)])
\* parseFloat(string) for a numeric literal
ParseFloat(cs) ==
    LET t == Trim(cs)
    IN IF t[1] = "-" THEN 0 - DigitsValue(Unsigned(t)) ELSE DigitsValue(Unsigned(t))

\* typeof value === 'string' && !isNaN(parseFloat(value)) && isFinite(value)
IsNumericString(v) == v.t = "string" /\ IsNumericLiteral(v.s)

\* positionSchema, in the order for..in visits its keys
SchemaKeys == <<"symbol", "type", "entryPrice", "amount", "baseAsset",
                "quoteAsset", "leverage", "pnl", "user", "timestamp">>
NoEnum == {}
TypeEnum == {<<"l", "o", "n", "g">>, <<"s", "h", "o", "r", "t">>, <<"b", "u", "y">>, <<"s", "e", "l", "l">>}
positionSchema ==
    [symbol     |-> [type |-> "string", required |-> TRUE,  enumValues |-> NoEnum],
     type       |-> [type |-> "string", required |-> TRUE,  enumValues |-> TypeEnum],
     entryPrice |-> [type |-> "number", required |-> TRUE,  enumValues |-> NoEnum],
     amount     |-> [type |-> "number", required |-> TRUE,  enumValues |-> NoEnum],
     baseAsset  |-> [type |-> "string", required |-> FALSE, enumValues |-> NoEnum],
     quoteAsset |-> [type |-> "string", required |-> FALSE, enumValues |-> NoEnum],
     leverage   |-> [type |-> "number", required |-> FALSE, enumValues |-> NoEnum],
     pnl        |-> [type |-> "number", required |-> FALSE, enumValues |-> NoEnum],
     user       |-> [type |-> "string", required |-> FALSE, enumValues |-> NoEnum],
     timestamp  |-> [type |-> "number", required |-> FALSE, enumValues |-> NoEnum]]

\* An element of the raw array: a primitive, or an object with its own
\* properties f (a property the object lacks reads as undefined).
NoFields == [k \in {SchemaKeys[i] : i \in 1..Len(SchemaKeys)} |-> Undefined]
Element(v) == [t |-> v.t, s |-> v.s, n |-> v.n, f |-> NoFields]
Object(fields) == [t |-> "object", s |-> <<>>, n |-> 0, f |-> fields]

\* position[key]: a property read on an object or on a primitive wrapper
Get(position, key) == position.f[key]

\* The messages _translate(key, vars) builds, by key and variables
ValidationError(key, field, expected, actual, value) ==
    [key |-> key, field |-> field, expectedType |-> expected, actualType |-> actual,
     value |-> value]

\* value === undefined || value === null || String(value).trim() === ''
IsBlank(value) ==
    value.t = "undefined" \/ value.t = "null" \/ Trim(StringOf(value)) = <<>>

\* The errors one pass of the for..in loop pushes for key
FieldErrors(position, key) ==
    LET schemaField == positionSchema[key]
        value == Get(position, key)
        requiredError ==
            IF schemaField.required /\ IsBlank(value)
            THEN <<ValidationError("validationErrorRequiredField", key, "", "", Undefined)>>
            ELSE <<>>
        typeError ==
            IF ~IsBlank(value) /\ TypeOf(value) # schemaField.type
                  /\ ~(schemaField.type = "number" /\ IsNumericString(value))
            THEN <<ValidationError("validationErrorInvalidType", key, schemaField.type,
                                   TypeOf(value), Undefined)>>
            ELSE <<>>
        enumError ==
            IF ~IsBlank(value) /\ schemaField.enumValues # NoEnum /\ value.t = "string"
                  /\ ToLowerCase(value.s) \notin schemaField.enumValues
            THEN <<ValidationError("validationErrorInvalidEnumValue", key, "", "", value)>>
            ELSE <<>>
    IN requiredError \o typeError \o enumError

RECURSIVE SchemaErrors(_, _)
SchemaErrors(position, i) ==
    IF i > Len(SchemaKeys) THEN <<>>
    ELSE FieldErrors(position, SchemaKeys[i]) \o SchemaErrors(position, i + 1)

\* validatePositionObject returning at the first error found
validatePositionObjectFirstOnly(position) ==
    IF TypeOf(position) # "object" \/ position.t = "null"
    THEN [isValid |-> FALSE,
          errors |-> <<ValidationError("validationErrorNotObject", "", "", "", Undefined)>>]
    ELSE LET errors == SchemaErrors(position, 1)
         IN [isValid |-> errors = <<>>,
             errors |-> IF errors = <<>> THEN <<>> ELSE <<errors[1]>>]

\* validatePositionObject without the position === null test
validatePositionObjectNullAsObject(position) ==
    IF TypeOf(position) # "object"
    THEN [isValid |-> FALSE,
          errors |-> <<ValidationError("validationErrorNotObject", "", "", "", Undefined)>>]
    ELSE LET errors == SchemaErrors(position, 1)
         IN [isValid |-> errors = <<>>, errors |-> errors]

\* validatePositionObject(position)
validatePositionObject(position) ==
    IF TypeOf(position) # "object" \/ position.t = "null"
    THEN [isValid |-> FALSE,
          errors |-> <<ValidationError("validationErrorNotObject", "", "", "", Undefined)>>]
    ELSE LET errors == SchemaErrors(position, 1)
         IN [isValid |-> errors = <<>>, errors |-> errors]

\* typeof x !== 'number' ? parseFloat(x) : x, for a value that passed validation
CoerceNumber(value) == IF value.t = "number" THEN value ELSE Num(ParseFloat(StringOf(value)))

\* The copy with leverage converted as well
CoercedPositionWithLeverage(position) ==
    Object([position.f EXCEPT !.entryPrice = CoerceNumber(@), !.amount = CoerceNumber(@),
                              !.leverage = IF @.t = "string" THEN CoerceNumber(@) ELSE @])

\* const coercedPosition = { ...position } with entryPrice and amount coerced
CoercedPosition(position) ==
    Object([position.f EXCEPT !.entryPrice = CoerceNumber(@), !.amount = CoerceNumber(@)])

\* position.symbol throws a TypeError when position is null or undefined
PropertyReadThrows(position) == position.t \in {"null", "undefined"}

UnknownSymbol == <<"U","n","k","n","o","w","n"," ","S","y","m","b","o","l">>
\* `Position ${index + 1} (${position.symbol || 'Unknown Symbol'}): ${errMsg}`
ItemError(index, position, errMsg) ==
    [position |-> index + 1,
     symbol |-> IF Truthy(Get(position, "symbol"))
                THEN StringOf(Get(position, "symbol")) ELSE UnknownSymbol,
     message |-> errMsg]

ItemErrors(index, position, itemErrors) ==
    [k \in 1..Len(itemErrors) |-> ItemError(index, position, itemErrors[k])]

\* positionsData.forEach((position, index) => ...) from element i on (1-based);
\* acc carries validPositions, allErrors and whether a TypeError was thrown
RECURSIVE ForEachPosition(_, _, _)
ForEachPosition(items, i, acc) ==
    IF i > Len(items) \/ acc.threw THEN acc
    ELSE LET position == items[i]
             checked == validatePositionObject(position)
         IN IF checked.isValid
            THEN ForEachPosition(items, i + 1,
                    [acc EXCEPT !.validPositions = Append(@, CoercedPosition(position))])
            ELSE IF PropertyReadThrows(position)
            THEN [acc EXCEPT !.threw = TRUE]
            ELSE ForEachPosition(items, i + 1,
                    [acc EXCEPT !.allErrors = @ \o ItemErrors(i - 1, position, checked.errors)])

NotArrayError ==
    [position |-> 0, symbol |-> <<>>,
     message |-> ValidationError("validationErrorNotArray", "", "", "", Undefined)]

\* validatePositionsArray without the Array.isArray test
validatePositionsArrayAnyInput(data) ==
    LET acc == ForEachPosition(data.items, 1,
                   [validPositions |-> <<>>, allErrors |-> <<>>, threw |-> FALSE])
    IN IF acc.threw
       THEN [threw |-> TRUE, isValid |-> FALSE, validatedPositions |-> <<>>,
             errors |-> <<>>]
       ELSE [threw |-> FALSE, isValid |-> TRUE,
             validatedPositions |-> acc.validPositions, errors |-> acc.allErrors]

\* validatePositionsArray(positionsData): the value returned, or threw = TRUE
validatePositionsArray(data) ==
    IF data.t # "array"
    THEN [threw |-> FALSE, isValid |-> FALSE, validatedPositions |-> <<>>,
          errors |-> <<NotArrayError>>]
    ELSE LET acc == ForEachPosition(data.items, 1,
                       [validPositions |-> <<>>, allErrors |-> <<>>, threw |-> FALSE])
         IN IF acc.threw
            THEN [threw |-> TRUE, isValid |-> FALSE, validatedPositions |-> <<>>,
                  errors |-> <<>>]
            ELSE [threw |-> FALSE, isValid |-> TRUE,
                  validatedPositions |-> acc.validPositions, errors |-> acc.allErrors]

\* ---- inputs ----
BTC == <<"B", "T", "C">>
ValidLong ==
    Object([NoFields EXCEPT !.symbol = Str(BTC), !.type = Str(<<"l", "o", "n", "g">>),
                            !.entryPrice = Num(5), !.amount = Num(1)])
ValidSellStringPrice ==
    Object([NoFields EXCEPT !.symbol = Str(<<"e", "t", "h">>), !.type = Str(<<"S", "E", "L", "L">>),
                            !.entryPrice = Str(<<" ", "7", "0", " ">>), !.amount = Num(2),
                            !.leverage = Num(3)])
MissingPrice ==
    Object([NoFields EXCEPT !.symbol = Str(<<"A", "D", "A">>), !.type = Str(<<"l", "o", "n", "g">>),
                            !.amount = Num(100)])
ManyErrors ==
    Object([NoFields EXCEPT !.symbol = Str(<<" ">>), !.type = Str(<<"h", "o", "l", "d">>),
                            !.entryPrice = Str(<<"a", "b", "c">>), !.amount = Null,
                            !.user = Num(7)])
NumericSymbol ==
    Object([NoFields EXCEPT !.symbol = Num(42), !.type = Str(<<"b", "u", "y">>),
                            !.entryPrice = Num(1), !.amount = Num(1)])
StringLeverage ==
    Object([NoFields EXCEPT !.symbol = Str(<<"s", "o", "l">>), !.type = Str(<<"s", "h", "o", "r", "t">>),
                            !.entryPrice = Num(9), !.amount = Str(<<"4">>),
                            !.leverage = Str(<<"3">>)])

\* Elements a JSON array can hold, and undefined for an array built in code
RawElements ==
    {ValidLong, ValidSellStringPrice, MissingPrice, ManyErrors, NumericSymbol,
     StringLeverage, Element(Null), Element(Undefined), Element(Num(5)), Element(Str(BTC))}

ArraysUpTo(n) == UNION {[1..k -> RawElements] : k \in 0..n}
Array(items) == [t |-> "array", items |-> items]
NonArrays == {[t |-> "object", items |-> <<>>], [t |-> "null", items |-> <<>>],
              [t |-> "string", items |-> <<>>]}

NoResult == [threw |-> FALSE, isValid |-> FALSE, validatedPositions |-> <<>>, errors |-> <<>>]

InitValidate ==
    /\ positionsData \in {Array(items) : items \in ArraysUpTo(MaxArrayLen)} \cup NonArrays
    /\ vpc = "ready"
    /\ vresult = NoResult

\* A caller runs validatePositionsArray(positionsData)
CallValidatePositionsArray ==
    /\ vpc = "ready"
    /\ vresult' = validatePositionsArray(positionsData)
    /\ vpc' = IF vresult'.threw THEN "threw" ELSE "returned"
    /\ UNCHANGED positionsData
    /\ UNCHANGED notValidateVars

NextValidate == CallValidatePositionsArray

ValidateInit ==
    InitValidate /\ IdleFetch /\ IdleRender /\ IdleObject /\ IdleFilterSort /\ IdleUi
    /\ IdleApp /\ IdleI18n /\ IdleDebounce
SpecValidate == ValidateInit /\ [][NextValidate]_vars

(***************************************************************************)
(* Claims about validatePositionsArray.                                    *)
(***************************************************************************)
Accepted(position) == validatePositionObject(position).isValid
AcceptedSubsequence(items) ==
    LET kept == SelectSeq(items, Accepted)
    IN [i \in 1..Len(kept) |-> CoercedPosition(kept[i])]

\* The error entry belongs to a rejected element of items and carries that
\* element's 1-based index and its symbol, or 'Unknown Symbol'
ErrorOfRejected(items, e) ==
    /\ e.position \in 1..Len(items)
    /\ ~Accepted(items[e.position])
    /\ \E k \in 1..Len(validatePositionObject(items[e.position]).errors) :
          e.message = validatePositionObject(items[e.position]).errors[k]
    /\ e.symbol \in {StringOf(items[e.position].f.symbol), UnknownSymbol}

\* C9: for every array input validatePositionsArray returns isValid = true,
\* validatedPositions is the subsequence of the elements validatePositionObject
\* accepts, in input order, and every error belongs to a rejected element and
\* carries its 1-based index and its symbol or 'Unknown Symbol'.
C9_AcceptedSubsequence ==
    (vpc \in {"returned", "threw"} /\ positionsData.t = "array") =>
        /\ vpc = "returned"
        /\ vresult.isValid
        /\ vresult.validatedPositions = AcceptedSubsequence(positionsData.items)
        /\ \A k \in 1..Len(vresult.errors) :
              ErrorOfRejected(positionsData.items, vresult.errors[k])

\* C10: validation never aborts: for every array of raw elements, null,
\* undefined and non-object elements included, the call of
\* validatePositionsArray returns a result and does not throw.
C10_NeverThrows ==
    positionsData.t = "array" => vpc # "threw" /\ ~vresult.threw

(***************************************************************************)
(*        validatePositionObject called on one value at a time             *)
(***************************************************************************)

\* ---- inputs: records whose fields take values of every kind the checks
\* tell apart (absent, null, blank, of the declared type, numeric string,
\* other type, inside and outside the enumeration) ----
CandidateObjects ==
    LET SymbolValues == {Undefined, Str(<<" ">>), Str(BTC), Num(42)}
        TypeValues ==
            {Undefined, Null, Str(<<"l", "o", "n", "g">>), Str(<<"S", "E", "L", "L">>),
             Str(<<"h", "o", "l", "d">>), Num(5)}
        EntryPriceValues ==
            {Undefined, Num(5), Str(<<" ", "7", "0", " ">>), Str(<<"a", "b", "c">>),
             Str(<<>>), Bool(TRUE)}
        AmountValues == {Null, Num(1), Str(<<"7">>), EmptyObject}
        LeverageValues == {Undefined, Num(3), Str(<<"3">>), Str(<<" ">>), Str(<<"x">>)}
        PnlValues == {Undefined, Str(<<"-", "4">>)}
        UserValues == {Undefined, Str(<<"b", "o", "b">>), Num(7)}
        TimestampValues == {Undefined, Num(9), Str(<<"1", "2">>)}
    IN {Object([NoFields EXCEPT !.symbol = sy, !.type = ty, !.entryPrice = ep,
                                !.amount = am, !.leverage = lv, !.pnl = pl, !.user = us,
                                !.timestamp = ts]) :
           sy \in SymbolValues, ty \in TypeValues, ep \in EntryPriceValues,
           am \in AmountValues, lv \in LeverageValues, pl \in PnlValues,
           us \in UserValues, ts \in TimestampValues}

\* Values that are not a non-null object
Primitives ==
    {Element(Null), Element(Undefined), Element(Num(5)), Element(Str(BTC)),
     Element(Bool(TRUE))}

NoObjectResult == [isValid |-> FALSE, errors |-> <<>>]

InitObject ==
    /\ inputObject \in CandidateObjects \cup Primitives
    /\ opc = "ready"
    /\ oresult = NoObjectResult

\* A caller runs validatePositionObject(inputObject)
CallValidatePositionObject ==
    /\ opc = "ready"
    /\ oresult' = validatePositionObject(inputObject)
    /\ opc' = "returned"
    /\ UNCHANGED inputObject
    /\ UNCHANGED <<fetchVars, validateVars, renderVars, filterSortVars, uiVars, appVars,
                   i18nVars, debounceVars>>

NextObject == CallValidatePositionObject

ObjectInit ==
    InitObject /\ IdleFetch /\ IdleValidate /\ IdleRender /\ IdleFilterSort /\ IdleUi
    /\ IdleApp /\ IdleI18n /\ IdleDebounce
SpecValidateObject == ObjectInit /\ [][NextObject]_vars

(***************************************************************************)
(* Claims about validatePositionObject.                                    *)
(***************************************************************************)
KeySet == {SchemaKeys[i] : i \in 1..Len(SchemaKeys)}
NumberFields == {key \in KeySet : positionSchema[key].type = "number"}
RequiredFields == {key \in KeySet : positionSchema[key].required}

HasError(errors, e) == \E k \in 1..Len(errors) : errors[k] = e

\* C11: validatePositionObject does not coerce: when a number-typed field
\* (entryPrice, amount, leverage, pnl, timestamp) of the record holds a numeric
\* string, the result is invalid and carries an 'invalid type' error for that
\* field with expected type number and actual type string.
C11_NumericStringRejected ==
    (opc = "returned" /\ inputObject.t = "object") =>
        \A key \in NumberFields :
            IsNumericString(Get(inputObject, key)) =>
                /\ ~oresult.isValid
                /\ HasError(oresult.errors,
                            ValidationError("validationErrorInvalidType", key, "number",
                                            "string", Undefined))

\* The field of the record violates the schema: a required field that is
\* undefined, null or empty after trimming; a value of a wrong type, a numeric
\* string where a number is declared excepted; a string outside the field's
\* enumeration, compared in lower case
Violates(p, key) ==
    LET value == Get(p, key)
        empty == value.t \in {"undefined", "null"} \/ Trim(StringOf(value)) = <<>>
    IN \/ positionSchema[key].required /\ empty
       \/ /\ ~empty
          /\ TypeOf(value) # positionSchema[key].type
          /\ ~(positionSchema[key].type = "number" /\ value.t = "string"
                  /\ IsNumericLiteral(value.s))
       \/ /\ ~empty
          /\ key = "type" /\ value.t = "string"
          /\ ToLowerCase(value.s) \notin TypeEnum
ViolatingFields(p) == SelectSeq(SchemaKeys, LAMBDA key : Violates(p, key))
ErrorFields(errors) == [k \in 1..Len(errors) |-> errors[k].field]

\* C13: validatePositionObject never short-circuits on a non-null object: the
\* errors it returns are one per violating schema field, in schema field order,
\* each naming its field, and isValid is true exactly when there is no error.
C13_OneErrorPerViolation ==
    (opc = "returned" /\ inputObject.t = "object") =>
        /\ ErrorFields(oresult.errors) = ViolatingFields(inputObject)
        /\ oresult.isValid <=> oresult.errors = <<>>

\* C13 witness: a record with a blank required field, a type value outside the
\* enumeration and a wrongly typed field has been checked and got three or
\* more errors.
C13_Witness ==
    /\ opc = "returned" /\ inputObject.t = "object"
    /\ Get(inputObject, "symbol") = Str(<<" ">>)
    /\ Get(inputObject, "type") = Str(<<"h", "o", "l", "d">>)
    /\ Get(inputObject, "user") = Num(7)
    /\ Len(oresult.errors) >= 3
    /\ ~oresult.isValid

\* C14: on an input that is not a non-null object (null, undefined, number,
\* string, boolean) validatePositionObject returns isValid = false with exactly
\* one error, the 'not a valid object' error, and no error of a field check.
C14_NotObject ==
    (opc = "returned" /\ (inputObject.t # "object")) =>
        /\ ~oresult.isValid
        /\ Len(oresult.errors) = 1
        /\ oresult.errors[1].key = "validationErrorNotObject"
        /\ oresult.errors[1].field = ""

\* C14 witness: null has been passed and the call has returned.
C14_Witness ==
    /\ opc = "returned" /\ inputObject.t = "null"
    /\ Len(oresult.errors) = 1

(***************************************************************************)
(* Claims about the positions validatePositionsArray accepts.              *)
(***************************************************************************)
\* The field holds a value: it is not undefined, null or blank
Present(value) == ~IsBlank(value)

\* A valid Position in the sense of the schema
IsValidPosition(p) ==
    /\ \A key \in RequiredFields : Present(Get(p, key))
    /\ \A key \in KeySet :
          Present(Get(p, key)) => TypeOf(Get(p, key)) = positionSchema[key].type
    /\ Get(p, "type").t = "string" /\ ToLowerCase(Get(p, "type").s) \in TypeEnum

\* C12: every position in validatedPositions returned by validatePositionsArray
\* is a valid Position: each required field holds a value, every field that
\* holds a value has the runtime type the schema declares, and type lowercased
\* is one of long, short, buy, sell.
C12_ValidatedAreValid ==
    vpc = "returned" =>
        \A k \in 1..Len(vresult.validatedPositions) :
            IsValidPosition(vresult.validatedPositions[k])

\* C15: on a non-array input validatePositionsArray returns isValid = false, an
\* empty validatedPositions and exactly one error, the 'not an array' error; on
\* the empty array it returns isValid = true, no position and no error.
C15_NonArrayAndEmpty ==
    vpc = "returned" =>
        /\ positionsData.t # "array" =>
              /\ ~vresult.isValid
              /\ vresult.validatedPositions = <<>>
              /\ Len(vresult.errors) = 1
              /\ vresult.errors[1].message.key = "validationErrorNotArray"
        /\ (positionsData.t = "array" /\ positionsData.items = <<>>) =>
              /\ vresult.isValid
              /\ vresult.validatedPositions = <<>>
              /\ vresult.errors = <<>>

\* C15 witness: the call on null, a non-array, has returned.
C15_Witness ==
    /\ vpc = "returned" /\ positionsData.t = "null"
    /\ Len(vresult.errors) = 1

\* The accepted copy equals the input record field by field, except that
\* entryPrice and amount are numbers, converted when the input held a string
EqualButCoerced(in, out) ==
    \A key \in KeySet :
        IF key \in {"entryPrice", "amount"} /\ Get(in, key).t # "number"
        THEN Get(out, key).t = "number" /\ Get(out, key).n = ParseFloat(Get(in, key).s)
        ELSE Get(out, key) = Get(in, key)

\* C16: validatePositionsArray leaves its input array and every input record
\* unmodified, and each accepted position equals its input record field by
\* field, except that entryPrice and amount are converted to numbers when they
\* were not numbers already.
C16_InputKeptCopiesEqual ==
    [][(vpc = "ready" /\ vpc' # "ready") =>
          /\ positionsData' = positionsData
          /\ (vpc' = "returned" /\ positionsData.t = "array") =>
                LET kept == SelectSeq(positionsData.items, Accepted)
                IN /\ Len(vresult'.validatedPositions) = Len(kept)
                   /\ \A k \in 1..Len(kept) :
                         EqualButCoerced(kept[k], vresult'.validatedPositions[k])]_vars

\* C16 witness: a record whose entryPrice is the string ' 70 ' and a record
\* whose leverage is the string '3' have been accepted; the copy of the first
\* holds the number 70 and the input array still holds the strings.
C16_Witness ==
    /\ vpc = "returned" /\ positionsData.t = "array"
    /\ positionsData.items = <<ValidSellStringPrice, StringLeverage>>
    /\ Len(vresult.validatedPositions) = 2
    /\ Get(vresult.validatedPositions[1], "entryPrice") = Num(70)
    /\ Get(vresult.validatedPositions[2], "leverage") = Str(<<"3">>)

(***************************************************************************)
(*        _filterPositionsLogic / _sortPositionsLogic  (js/ui.js)          *)
(***************************************************************************)

\* String.prototype.includes(term)
Includes(cs, term) ==
    \E i \in 0..(Len(cs) - Len(term)) : SubSeq(cs, i + 1, i + Len(term)) = term

AllTypes == <<"a", "l", "l">>

\* p.type && String(p.type).toLowerCase() === filterTypeValue
TypeMatches(p, filterTypeValue) ==
    Truthy(Get(p, "type")) /\ ToLowerCase(StringOf(Get(p, "type"))) = filterTypeValue
\* p.symbol && String(p.symbol).toLowerCase().includes(searchTerm)
SymbolMatches(p, searchTerm) ==
    Truthy(Get(p, "symbol"))
        /\ Includes(ToLowerCase(StringOf(Get(p, "symbol"))), searchTerm)

\* _filterPositionsLogic comparing p.type without lowercasing it
_filterPositionsLogicExactType(positions, filterTypeValue, searchTerm) ==
    LET byType == IF filterTypeValue # AllTypes
                  THEN SelectSeq(positions,
                           LAMBDA p : Truthy(Get(p, "type"))
                                         /\ StringOf(Get(p, "type")) = filterTypeValue)
                  ELSE positions
        bySymbol == IF searchTerm # <<>>
                    THEN SelectSeq(byType, LAMBDA p : SymbolMatches(p, searchTerm))
                    ELSE byType
    IN [result |-> bySymbol, positions |-> positions]

\* _filterPositionsLogic lowercasing searchTerm itself
_filterPositionsLogicLowerTerm(positions, filterTypeValue, searchTerm) ==
    LET byType == IF filterTypeValue # AllTypes
                  THEN SelectSeq(positions, LAMBDA p : TypeMatches(p, filterTypeValue))
                  ELSE positions
        bySymbol == IF searchTerm # <<>>
                    THEN SelectSeq(byType,
                             LAMBDA p : SymbolMatches(p, ToLowerCase(searchTerm)))
                    ELSE byType
    IN [result |-> bySymbol, positions |-> positions]

\* _filterPositionsLogic(positions, filterTypeValue, searchTerm): result is the
\* array returned, positions the argument array as the call leaves it
_filterPositionsLogic(positions, filterTypeValue, searchTerm) ==
    LET byType == IF filterTypeValue # AllTypes
                  THEN SelectSeq(positions, LAMBDA p : TypeMatches(p, filterTypeValue))
                  ELSE positions
        bySymbol == IF searchTerm # <<>>
                    THEN SelectSeq(byType, LAMBDA p : SymbolMatches(p, searchTerm))
                    ELSE byType
    IN [result |-> bySymbol, positions |-> positions]

\* String.prototype.localeCompare over digits and letters: digits before
\* letters, letters in alphabetical order whatever their case, and between
\* strings equal up to case the one with the lower-case letter first
IsUpper(c) == \E i \in 1..Len(UpperLetters) : UpperLetters[i] = c
CollationRank(c) ==
    IF IsDigit(c) THEN DigitValue(c) + 1
    ELSE IF \E i \in 1..Len(LowerLetters) : LowerLetters[i] = LowerChar(c)
    THEN 10 + (CHOOSE i \in 1..Len(LowerLetters) : LowerLetters[i] = LowerChar(c))
    ELSE 0
RECURSIVE ComparePrimary(_, _)
ComparePrimary(a, b) ==
    IF a = <<>> /\ b = <<>> THEN 0
    ELSE IF a = <<>> THEN -1
    ELSE IF b = <<>> THEN 1
    ELSE IF CollationRank(a[1]) < CollationRank(b[1]) THEN -1
    ELSE IF CollationRank(a[1]) > CollationRank(b[1]) THEN 1
    ELSE ComparePrimary(Tail(a), Tail(b))
RECURSIVE CompareCase(_, _)
CompareCase(a, b) ==
    IF a = <<>> \/ b = <<>> THEN 0
    ELSE IF a[1] = b[1] THEN CompareCase(Tail(a), Tail(b))
    ELSE IF IsUpper(b[1]) THEN -1 ELSE 1
LocaleCompare(a, b) ==
    IF ComparePrimary(a, b) # 0 THEN ComparePrimary(a, b) ELSE CompareCase(a, b)

\* String(p.symbol) || ''
SymbolKey(p) ==
    IF StringOf(Get(p, "symbol")) # <<>> THEN StringOf(Get(p, "symbol")) ELSE <<>>
\* Number(value) || 1
NumberOrOne(value) ==
    CASE value.t = "number"  -> value.n
      [] value.t = "boolean" -> value.n
      [] value.t = "string" /\ IsNumericLiteral(value.s) -> ParseFloat(value.s)
      [] OTHER -> 1

\* Number(value) || 0
NumberOrZero(value) ==
    CASE value.t = "number"  -> value.n
      [] value.t = "boolean" -> value.n
      [] value.t = "string" /\ IsNumericLiteral(value.s) -> ParseFloat(value.s)
      [] OTHER -> 0

SortValues ==
    {"default", "symbol-asc", "symbol-desc", "entryPrice-asc", "entryPrice-desc",
     "timestamp-desc", "timestamp-asc"}

\* The comparators of the switch, with ties broken by the symbol
CompareTiesBySymbol(sortValue, a, b) ==
    LET tie == LocaleCompare(SymbolKey(a), SymbolKey(b))
        first ==
            CASE sortValue = "symbol-asc"  -> LocaleCompare(SymbolKey(a), SymbolKey(b))
              [] sortValue = "symbol-desc" -> LocaleCompare(SymbolKey(b), SymbolKey(a))
              [] sortValue = "entryPrice-asc" ->
                    NumberOrZero(Get(a, "entryPrice")) - NumberOrZero(Get(b, "entryPrice"))
              [] sortValue = "entryPrice-desc" ->
                    NumberOrZero(Get(b, "entryPrice")) - NumberOrZero(Get(a, "entryPrice"))
              [] sortValue = "timestamp-desc" ->
                    NumberOrZero(Get(b, "timestamp")) - NumberOrZero(Get(a, "timestamp"))
              [] sortValue = "timestamp-asc" ->
                    NumberOrZero(Get(a, "timestamp")) - NumberOrZero(Get(b, "timestamp"))
              [] OTHER -> 0
    IN IF first # 0 THEN first ELSE tie

\* The comparators of the switch with every direction taken as ascending
CompareAscending(sortValue, a, b) ==
    CASE sortValue \in {"symbol-asc", "symbol-desc"} ->
            LocaleCompare(SymbolKey(a), SymbolKey(b))
      [] sortValue \in {"entryPrice-asc", "entryPrice-desc"} ->
            NumberOrZero(Get(a, "entryPrice")) - NumberOrZero(Get(b, "entryPrice"))
      [] sortValue \in {"timestamp-desc", "timestamp-asc"} ->
            NumberOrZero(Get(a, "timestamp")) - NumberOrZero(Get(b, "timestamp"))
      [] OTHER -> 0

\* The comparator the switch passes to sort for sortValue
Compare(sortValue, a, b) ==
    CASE sortValue = "symbol-asc"  -> LocaleCompare(SymbolKey(a), SymbolKey(b))
      [] sortValue = "symbol-desc" -> LocaleCompare(SymbolKey(b), SymbolKey(a))
      [] sortValue = "entryPrice-asc" ->
            NumberOrZero(Get(a, "entryPrice")) - NumberOrZero(Get(b, "entryPrice"))
      [] sortValue = "entryPrice-desc" ->
            NumberOrZero(Get(b, "entryPrice")) - NumberOrZero(Get(a, "entryPrice"))
      [] sortValue = "timestamp-desc" ->
            NumberOrZero(Get(b, "timestamp")) - NumberOrZero(Get(a, "timestamp"))
      [] sortValue = "timestamp-asc" ->
            NumberOrZero(Get(a, "timestamp")) - NumberOrZero(Get(b, "timestamp"))
      [] OTHER -> 0

\* An unstable insertion: each element goes in front of the elements before
\* it that compare equal
RECURSIVE InsertBeforeEqual(_, _, _)
InsertBeforeEqual(sorted, x, sortValue) ==
    IF sorted = <<>> THEN <<x>>
    ELSE IF Compare(sortValue, sorted[Len(sorted)], x) < 0 THEN Append(sorted, x)
    ELSE Append(InsertBeforeEqual(SubSeq(sorted, 1, Len(sorted) - 1), x, sortValue),
                sorted[Len(sorted)])

\* Array.prototype.sort(compareFn), a stable sort: each element goes behind
\* the elements before it that do not compare greater
RECURSIVE InsertSorted(_, _, _)
InsertSorted(sorted, x, sortValue) ==
    IF sorted = <<>> THEN <<x>>
    ELSE IF Compare(sortValue, sorted[Len(sorted)], x) <= 0 THEN Append(sorted, x)
    ELSE Append(InsertSorted(SubSeq(sorted, 1, Len(sorted) - 1), x, sortValue),
                sorted[Len(sorted)])
RECURSIVE StableSort(_, _)
StableSort(seq, sortValue) ==
    IF seq = <<>> THEN <<>>
    ELSE InsertSorted(StableSort(SubSeq(seq, 1, Len(seq) - 1), sortValue),
                      seq[Len(seq)], sortValue)

\* _sortPositionsLogic sorting the argument array itself
_sortPositionsLogicInPlace(positions, sortValue) ==
    LET sorted == IF sortValue \in SortValues \ {"default"}
                  THEN StableSort(positions, sortValue) ELSE positions
    IN [result |-> sorted, positions |-> sorted]

\* _sortPositionsLogic(positions, sortValue): result is the array returned,
\* positions the argument array as the call leaves it
_sortPositionsLogic(positions, sortValue) ==
    LET positionsToSort == positions
    IN [result |-> IF sortValue \in SortValues \ {"default"}
                   THEN StableSort(positionsToSort, sortValue) ELSE positionsToSort,
        positions |-> positions]

\* ---- inputs ----
PosBTC ==
    Object([NoFields EXCEPT !.symbol = Str(BTC), !.type = Str(<<"l", "o", "n", "g">>),
                            !.entryPrice = Num(5), !.amount = Num(1), !.timestamp = Num(0)])
PosBtcUpperLong ==
    Object([NoFields EXCEPT !.symbol = Str(<<"b", "t", "c">>), !.type = Str(<<"L", "O", "N", "G">>),
                            !.entryPrice = Num(5), !.amount = Num(1), !.timestamp = Num(-3)])
PosETH ==
    Object([NoFields EXCEPT !.symbol = Str(<<"E", "T", "H">>), !.type = Str(<<"s", "h", "o", "r", "t">>),
                            !.entryPrice = Num(0), !.amount = Num(1)])
PosXbtSell ==
    Object([NoFields EXCEPT !.symbol = Str(<<"x", "B", "T">>), !.type = Str(<<"s", "e", "l", "l">>),
                            !.entryPrice = Null, !.amount = Num(1),
                            !.timestamp = Str(<<"a", "b", "c">>)])
PosNoSymbol ==
    Object([NoFields EXCEPT !.entryPrice = Num(70), !.timestamp = Num(2)])
PositionPool == {PosBTC, PosBtcUpperLong, PosETH, PosXbtSell, PosNoSymbol}
PositionLists(n) == UNION {[1..k -> PositionPool] : k \in 0..n}

FilterTypeValues ==
    {AllTypes, <<"l", "o", "n", "g">>, <<"s", "h", "o", "r", "t">>, <<"s", "e", "l", "l">>}
SearchTerms == {<<>>, <<"b", "t">>, <<"B", "T">>, <<"e">>}
\* the values of the sort control and a value the switch does not know
SortArguments == SortValues \cup {"pnl-asc"}

NoCall == [fn |-> "none", filterTypeValue |-> "", searchTerm |-> <<>>,
           sortValue |-> "", positions |-> <<>>, nth |-> 0, priorSort |-> "",
           priorInput |-> <<>>]

InitFilterSort ==
    /\ inputList \in PositionLists(MaxPositions)
    /\ fsCall = NoCall
    /\ fsResult = <<>>

\* A caller runs _filterPositionsLogic(inputList, filterTypeValue, searchTerm),
\* once
CallFilter(filterTypeValue, searchTerm) ==
    /\ fsCall = NoCall
    /\ LET call == _filterPositionsLogic(inputList, filterTypeValue, searchTerm)
       IN /\ fsResult' = call.result
          /\ inputList' = call.positions
    /\ fsCall' = [fn |-> "filter", filterTypeValue |-> filterTypeValue,
                  searchTerm |-> searchTerm, sortValue |-> "", positions |-> inputList,
                  nth |-> 1, priorSort |-> "", priorInput |-> <<>>]
    /\ UNCHANGED <<fetchVars, validateVars, renderVars, objectVars, uiVars, appVars,
                   i18nVars, debounceVars>>

\* A caller runs _sortPositionsLogic(inputList, sortValue), once
CallSort(sortValue) ==
    /\ fsCall = NoCall
    /\ LET call == _sortPositionsLogic(inputList, sortValue)
       IN /\ fsResult' = call.result
          /\ inputList' = call.positions
    /\ fsCall' = [fn |-> "sort", filterTypeValue |-> "", searchTerm |-> <<>>,
                  sortValue |-> sortValue, positions |-> inputList,
                  nth |-> 1, priorSort |-> "", priorInput |-> <<>>]
    /\ UNCHANGED <<fetchVars, validateVars, renderVars, objectVars, uiVars, appVars,
                   i18nVars, debounceVars>>

\* The caller passes the array the first sort returned to a second
\* _sortPositionsLogic(fsResult, sortValue)
CallSortAgain(sortValue) ==
    /\ fsCall.fn = "sort" /\ fsCall.nth = 1
    /\ LET call == _sortPositionsLogic(fsResult, sortValue)
       IN /\ fsResult' = call.result
          /\ inputList' = call.positions
    /\ fsCall' = [fn |-> "sort", filterTypeValue |-> "", searchTerm |-> <<>>,
                  sortValue |-> sortValue, positions |-> fsResult,
                  nth |-> 2, priorSort |-> fsCall.sortValue,
                  priorInput |-> fsCall.positions]
    /\ UNCHANGED <<fetchVars, validateVars, renderVars, objectVars, uiVars, appVars,
                   i18nVars, debounceVars>>

NextFilterSort ==
    \/ \E filterTypeValue \in FilterTypeValues, searchTerm \in SearchTerms :
          CallFilter(filterTypeValue, searchTerm)
    \/ \E sortValue \in SortArguments : CallSort(sortValue)
    \/ \E sortValue \in SortArguments : CallSortAgain(sortValue)

FilterSortInit ==
    InitFilterSort /\ IdleFetch /\ IdleValidate /\ IdleRender /\ IdleObject /\ IdleUi
    /\ IdleApp /\ IdleI18n /\ IdleDebounce
SpecFilterSort == FilterSortInit /\ [][NextFilterSort]_vars

(***************************************************************************)
(* Claims about filter and sort.                                           *)
(***************************************************************************)
Absent(value) == value.t \in {"undefined", "null"}
Lowercased(value) == ToLowerCase(StringOf(value))

\* The item passes the type filter and the search of the claim
Keeps(p, typeFilter, searchTerm) ==
    /\ \/ typeFilter = AllTypes
       \/ ~Absent(Get(p, "type")) /\ Lowercased(Get(p, "type")) = typeFilter
    /\ \/ searchTerm = <<>>
       \/ ~Absent(Get(p, "symbol")) /\ Includes(Lowercased(Get(p, "symbol")), searchTerm)

\* C17: filter returns exactly the subsequence, in input order, of the items p
\* with (typeFilter = 'all' or lowercase(p.type) = typeFilter) and (searchTerm
\* empty or lowercase(p.symbol) contains searchTerm); filter(list, 'all', '')
\* returns the same elements in the same order.
C17_FilterIsSubsequence ==
    fsCall.fn = "filter" =>
        /\ fsResult = SelectSeq(fsCall.positions,
                          LAMBDA p : Keeps(p, fsCall.filterTypeValue, fsCall.searchTerm))
        /\ (fsCall.filterTypeValue = AllTypes /\ fsCall.searchTerm = <<>>) =>
              fsResult = fsCall.positions

\* C17 witness: filter(<<BTC long, ETH short, btc LONG>>, 'long', 'bt') has
\* returned the first and the third item.
C17_Witness ==
    /\ fsCall.fn = "filter"
    /\ fsCall.positions = <<PosBTC, PosETH, PosBtcUpperLong>>
    /\ fsCall.filterTypeValue = <<"l", "o", "n", "g">>
    /\ fsCall.searchTerm = <<"b", "t">>
    /\ fsResult = <<PosBTC, PosBtcUpperLong>>

\* C18 as stated: the symbol search of filter is case-insensitive on both
\* sides: filter(L, 'all', s) keeps exactly the items whose lowercased symbol
\* contains the lowercased s.
C18_Original ==
    (fsCall.fn = "filter" /\ fsCall.filterTypeValue = AllTypes) =>
        fsResult = SelectSeq(fsCall.positions,
                       LAMBDA p : Keeps(p, AllTypes, ToLowerCase(fsCall.searchTerm)))

\* C18 (amended): the symbol search of filter lowercases the symbol only:
\* filter(L, 'all', s) keeps exactly the items whose lowercased symbol contains
\* s as passed, so a term with an upper-case letter selects no item.
C18_TermAsPassed ==
    (fsCall.fn = "filter" /\ fsCall.filterTypeValue = AllTypes) =>
        /\ fsResult = SelectSeq(fsCall.positions,
                          LAMBDA p : Keeps(p, AllTypes, fsCall.searchTerm))
        /\ (\E i \in 1..Len(fsCall.searchTerm) : IsUpper(fsCall.searchTerm[i])) =>
              fsResult = <<>>

\* C18 witness: filter(<<BTC, xBT>>, 'all', 'BT') has returned no item, while
\* both symbols contain 'bt' once lowercased.
C18_Witness ==
    /\ fsCall.fn = "filter"
    /\ fsCall.filterTypeValue = AllTypes
    /\ fsCall.searchTerm = <<"B", "T">>
    /\ fsCall.positions = <<PosBTC, PosXbtSell>>
    /\ fsResult = <<>>

\* The key the sort of the claim orders by
SortKeyOf(sortValue, p) ==
    CASE sortValue \in {"symbol-asc", "symbol-desc"} -> Str(SymbolKey(p))
      [] sortValue \in {"entryPrice-asc", "entryPrice-desc"} ->
            Num(NumberOrZero(Get(p, "entryPrice")))
      [] sortValue \in {"timestamp-asc", "timestamp-desc"} ->
            Num(NumberOrZero(Get(p, "timestamp")))
      [] OTHER -> Null

Placements(n) == {f \in [1..n -> 1..n] : \A i, j \in 1..n : f[i] = f[j] => i = j}

\* C20: sort is stable: for every key the result holds the input items, and
\* items whose sort keys are equal keep their relative input order; with key
\* 'default' or an unrecognised key the result is the input in its order.
C20_SortIsStable ==
    fsCall.fn = "sort" =>
        /\ \E at \in Placements(Len(fsCall.positions)) :
              /\ Len(fsResult) = Len(fsCall.positions)
              /\ \A i \in 1..Len(fsCall.positions) : fsResult[at[i]] = fsCall.positions[i]
              /\ \A i, j \in 1..Len(fsCall.positions) :
                    (i < j /\ SortKeyOf(fsCall.sortValue, fsCall.positions[i])
                                = SortKeyOf(fsCall.sortValue, fsCall.positions[j]))
                        => at[i] < at[j]
        /\ fsCall.sortValue \in {"default", "pnl-asc"} => fsResult = fsCall.positions

\* C20 witness: sorting <<no symbol (70), btc (5), BTC (5)>> by entryPrice-asc
\* has moved the item priced 70 behind the two items priced 5, which kept
\* their input order.
C20_Witness ==
    /\ fsCall.fn = "sort"
    /\ fsCall.sortValue = "entryPrice-asc"
    /\ fsCall.positions = <<PosNoSymbol, PosBtcUpperLong, PosBTC>>
    /\ fsResult = <<PosBtcUpperLong, PosBTC, PosNoSymbol>>

(***************************************************************************)
(*     Filter, search and sort controls: applyFilterAndRender (js/ui.js)   *)
(***************************************************************************)

\* window.ui.applyFilterAndRender() for the control values given: display is
\* the list handed to renderPositions, stored is allFetchedPositions as the
\* call leaves it. Both functions work on arrays made for them: the copy
\* [...allFetchedPositions] and the array the filter returns.
applyFilterAndRender(stored, filterTypeValue, searchValue, sortValue) ==
    LET searchTerm == Trim(ToLowerCase(searchValue))
        filtered == _filterPositionsLogic(stored, filterTypeValue, searchTerm).result
        sortedAndFiltered == _sortPositionsLogic(filtered, sortValue).result
    IN [display |-> sortedAndFiltered, stored |-> stored]

\* saveUiSettings that leaves the sort order out of the stored item
SavedSettingsWithoutSort(filterTypeValue, searchValue, sortValue) ==
    [saved |-> TRUE, typeFilter |-> filterTypeValue, symbolSearch |-> searchValue,
     sortBy |-> "default"]
\* window.ui.saveUiSettings()
SavedSettings(filterTypeValue, searchValue, sortValue) ==
    [saved |-> TRUE, typeFilter |-> filterTypeValue, symbolSearch |-> searchValue,
     sortBy |-> sortValue]

\* The body of applyFilterAndRender with the controls reading as given:
\* filter, sort, renderPositions, saveUiSettings
ApplyFilterAndRender(stored, filterTypeValue, searchValue, sortValue) ==
    LET applied == applyFilterAndRender(stored, filterTypeValue, searchValue, sortValue)
        c == renderPositions(CurrentController, applied.display)
    IN /\ allFetchedPositions' = applied.stored
       /\ \E kept \in 0..queuedEntries : Install(c, kept)
       /\ lastOp' = [op |-> "renderPositions", list |-> 0, len |-> Len(applied.display),
                     prev |-> currentRenderIndex]
       /\ emptyState' = noPositionsMessageKey(applied.display, applied.stored,
                                              filterTypeValue, searchValue)
       /\ gridShown' = (Len(applied.display) # 0)
       /\ uiSettings' = SavedSettings(filterTypeValue, searchValue, sortValue)

\* ---- inputs ----
FetchedPool == {PosBTC, PosBtcUpperLong, PosETH}
FetchedLists(n) == UNION {[1..k -> FetchedPool] : k \in 0..n}
\* the options of #type-filter
TypeFilterOptions == {AllTypes, <<"l", "o", "n", "g">>, <<"s", "h", "o", "r", "t">>}
SearchBoxValues == {<<>>, <<"b", "t">>, <<" ", "B", "T">>}

InitUi ==
    /\ allFetchedPositions = <<>> /\ loaded = FALSE /\ searchTimer = FALSE
    /\ typeFilterValue = AllTypes /\ symbolSearchValue = <<>> /\ sortByValue = "default"
    /\ uiSettings = [saved |-> FALSE, typeFilter |-> <<>>, symbolSearch |-> <<>>,
                     sortBy |-> ""]

\* window.ui.displayPositions(validatedPositions), called by mainApp once
DisplayPositions(validatedPositions) ==
    /\ ~loaded
    /\ loaded' = TRUE
    /\ ApplyFilterAndRender(validatedPositions, typeFilterValue, symbolSearchValue,
                            sortByValue)
    /\ UNCHANGED <<searchTimer, typeFilterValue, symbolSearchValue, sortByValue>>
    /\ UNCHANGED <<fetchVars, validateVars, objectVars, filterSortVars, appVars,
                   i18nVars, debounceVars>>

\* 'change' on #type-filter
TypeFilterChange(value) ==
    /\ value # typeFilterValue
    /\ typeFilterValue' = value
    /\ ApplyFilterAndRender(allFetchedPositions, value, symbolSearchValue, sortByValue)
    /\ UNCHANGED <<loaded, searchTimer, symbolSearchValue, sortByValue>>
    /\ UNCHANGED <<fetchVars, validateVars, objectVars, filterSortVars, appVars,
                   i18nVars, debounceVars>>

\* 'change' on #sort-by
SortByChange(value) ==
    /\ value # sortByValue
    /\ sortByValue' = value
    /\ ApplyFilterAndRender(allFetchedPositions, typeFilterValue, symbolSearchValue, value)
    /\ UNCHANGED <<loaded, searchTimer, typeFilterValue, symbolSearchValue>>
    /\ UNCHANGED <<fetchVars, validateVars, objectVars, filterSortVars, appVars,
                   i18nVars, debounceVars>>

\* 'input' on #symbol-search: the debounced handler restarts its timer
SymbolSearchInput(value) ==
    /\ value # symbolSearchValue
    /\ symbolSearchValue' = value
    /\ searchTimer' = TRUE
    /\ UNCHANGED <<allFetchedPositions, loaded, typeFilterValue, sortByValue, uiSettings>>
    /\ UNCHANGED <<fetchVars, validateVars, renderVars, objectVars, filterSortVars, appVars,
                   i18nVars, debounceVars>>

\* 300 ms without input: later() runs applyFilterAndRender
DebounceElapses ==
    /\ searchTimer
    /\ searchTimer' = FALSE
    /\ ApplyFilterAndRender(allFetchedPositions, typeFilterValue, symbolSearchValue,
                            sortByValue)
    /\ UNCHANGED <<loaded, typeFilterValue, symbolSearchValue, sortByValue>>
    /\ UNCHANGED <<fetchVars, validateVars, objectVars, filterSortVars, appVars,
                   i18nVars, debounceVars>>

\* A script calls the exported _filterPositionsLogic on the stored list, which
\* window.currentPositionsData aliases
FilterStoredList(filterTypeValue, searchTerm) ==
    /\ loaded
    /\ allFetchedPositions' =
          _filterPositionsLogic(allFetchedPositions, filterTypeValue, searchTerm).positions
    /\ UNCHANGED <<loaded, searchTimer, typeFilterValue, symbolSearchValue, sortByValue,
                   uiSettings>>
    /\ UNCHANGED <<fetchVars, validateVars, renderVars, objectVars, filterSortVars, appVars,
                   i18nVars, debounceVars>>

\* A script calls the exported _sortPositionsLogic on the stored list
SortStoredList(sortValue) ==
    /\ loaded
    /\ allFetchedPositions' = _sortPositionsLogic(allFetchedPositions, sortValue).positions
    /\ UNCHANGED <<loaded, searchTimer, typeFilterValue, symbolSearchValue, sortByValue,
                   uiSettings>>
    /\ UNCHANGED <<fetchVars, validateVars, renderVars, objectVars, filterSortVars, appVars,
                   i18nVars, debounceVars>>

NextUi ==
    \/ \E validatedPositions \in FetchedLists(MaxFetched) :
          DisplayPositions(validatedPositions)
    \/ \E value \in TypeFilterOptions : TypeFilterChange(value)
    \/ \E value \in SortValues : SortByChange(value)
    \/ \E value \in SearchBoxValues : SymbolSearchInput(value)
    \/ DebounceElapses
    \/ \E filterTypeValue \in {AllTypes, <<"l", "o", "n", "g">>},
          searchTerm \in {<<>>, <<"b", "t">>} :
          FilterStoredList(filterTypeValue, searchTerm)
    \/ \E sortValue \in {"default", "symbol-asc", "entryPrice-desc"} :
          SortStoredList(sortValue)

UiInit ==
    InitUi /\ InitRender /\ IdleFetch /\ IdleValidate /\ IdleObject /\ IdleFilterSort
    /\ IdleApp /\ IdleI18n /\ IdleDebounce
SpecUi == UiInit /\ [][NextUi]_vars

(***************************************************************************)
(* Claims about the stored list.                                           *)
(***************************************************************************)
\* C19: filter and sort never mutate their input list, and across any
\* sequence of filter, search and sort events the stored list of all fetched
\* positions is unchanged: once displayPositions has stored the list, every
\* step (a control event, the debounced search, a call of filter or sort on
\* the stored list) leaves it with the same elements in the same order.
C19_StoredListUnchanged ==
    [][loaded => allFetchedPositions' = allFetchedPositions]_vars

\* C19 witness: the stored list is <<ETH, BTC>>, the sort control reads
\* symbol-asc and the display list is <<BTC, ETH>>, a separate sequence.
C19_Witness ==
    /\ loaded
    /\ allFetchedPositions = <<PosETH, PosBTC>>
    /\ sortByValue = "symbol-asc"
    /\ currentlyDisplayedPositions = <<PosBTC, PosETH>>
    /\ CardPositions(grid) = <<PosBTC, PosETH>>

(***************************************************************************)
(* Claims about the order _sortPositionsLogic produces.                    *)
(***************************************************************************)
Ascending == {"symbol-asc", "entryPrice-asc", "timestamp-asc"}
Descending == {"symbol-desc", "entryPrice-desc", "timestamp-desc"}

\* The sort key of a is not greater than the sort key of b
KeyNotGreater(sortValue, a, b) ==
    IF sortValue \in {"symbol-asc", "symbol-desc"}
    THEN LocaleCompare(SortKeyOf(sortValue, a).s, SortKeyOf(sortValue, b).s) <= 0
    ELSE SortKeyOf(sortValue, a).n <= SortKeyOf(sortValue, b).n

IsPermutation(result, input) ==
    /\ Len(result) = Len(input)
    /\ \E at \in Placements(Len(input)) : \A i \in 1..Len(input) : result[at[i]] = input[i]

Reverse(seq) == [i \in 1..Len(seq) |-> seq[Len(seq) + 1 - i]]

DistinctSymbols(seq) ==
    \A i, j \in 1..Len(seq) : Get(seq[i], "symbol") = Get(seq[j], "symbol") => i = j

\* C21: for every list and every sort key the result of sort is a
\* permutation of the input, ordered non-decreasingly by the key for '-asc'
\* and non-increasingly for '-desc'; and for a list with pairwise distinct
\* symbols, sorting the symbol-asc result by symbol-desc gives the reverse of
\* the symbol-asc result.
C21_SortedPermutation ==
    fsCall.fn = "sort" =>
        /\ IsPermutation(fsResult, fsCall.positions)
        /\ fsCall.sortValue \in Ascending =>
              \A i, j \in 1..Len(fsResult) :
                  i < j => KeyNotGreater(fsCall.sortValue, fsResult[i], fsResult[j])
        /\ fsCall.sortValue \in Descending =>
              \A i, j \in 1..Len(fsResult) :
                  i < j => KeyNotGreater(fsCall.sortValue, fsResult[j], fsResult[i])
        /\ ( /\ fsCall.nth = 2
             /\ fsCall.priorSort = "symbol-asc"
             /\ fsCall.sortValue = "symbol-desc"
             /\ DistinctSymbols(fsCall.priorInput) )
           => fsResult = Reverse(fsCall.positions)

\* C21 witness: <<xBT, BTC, ETH>> sorted by symbol-asc gave <<BTC, ETH, xBT>>,
\* and sorting that by symbol-desc has given <<xBT, ETH, BTC>>.
C21_Witness ==
    /\ fsCall.fn = "sort" /\ fsCall.nth = 2
    /\ fsCall.priorInput = <<PosXbtSell, PosBTC, PosETH>>
    /\ fsCall.priorSort = "symbol-asc"
    /\ fsCall.positions = <<PosBTC, PosETH, PosXbtSell>>
    /\ fsCall.sortValue = "symbol-desc"
    /\ fsResult = <<PosXbtSell, PosETH, PosBTC>>

\* C22: sort is idempotent for every key and list, lists with tied or
\* missing keys included: sorting the result of a sort again by the same key
\* returns it unchanged.
C22_SortIdempotent ==
    (fsCall.fn = "sort" /\ fsCall.nth = 2 /\ fsCall.priorSort = fsCall.sortValue)
        => fsResult = fsCall.positions

\* C22 witness: <<no symbol (70), xBT (null), ETH (0)>> sorted by
\* entryPrice-asc gave <<xBT, ETH, no symbol>>, the null price tied with 0,
\* and the second sort by entryPrice-asc has returned the same sequence.
C22_Witness ==
    /\ fsCall.fn = "sort" /\ fsCall.nth = 2
    /\ fsCall.priorInput = <<PosNoSymbol, PosXbtSell, PosETH>>
    /\ fsCall.priorSort = "entryPrice-asc"
    /\ fsCall.sortValue = "entryPrice-asc"
    /\ fsCall.positions = <<PosXbtSell, PosETH, PosNoSymbol>>
    /\ fsResult = <<PosXbtSell, PosETH, PosNoSymbol>>

NumericSorts == {"entryPrice-asc", "entryPrice-desc", "timestamp-asc", "timestamp-desc"}
SortField(sortValue) ==
    IF sortValue \in {"entryPrice-asc", "entryPrice-desc"} THEN "entryPrice" ELSE "timestamp"

\* A missing, null or non-numeric value
ZeroLike(value) ==
    \/ Absent(value)
    \/ value.t = "string" /\ ~IsNumericLiteral(value.s)
IsNegative(value) == value.t = "number" /\ value.n < 0
IsPositive(value) == value.t = "number" /\ value.n > 0
IsZero(value) == value.t = "number" /\ value.n = 0

\* C23: in entryPrice-* and timestamp-* sorts a missing, null or
\* non-numeric value is ordered exactly as the value 0: ascending, such a
\* record stands after every negative value and before every positive one
\* (descending: the other way round), and the records whose value is 0 or
\* missing, null or non-numeric stand in their relative input order.
C23_MissingAsZero ==
    (fsCall.fn = "sort" /\ fsCall.sortValue \in NumericSorts) =>
        LET field == SortField(fsCall.sortValue)
            Val(p) == Get(p, field)
            Tied(p) == ZeroLike(Val(p)) \/ IsZero(Val(p))
            Before(a, b) == IF fsCall.sortValue \in Ascending
                            THEN IsNegative(a) \/ IsPositive(b)
                            ELSE IsPositive(a) \/ IsNegative(b)
        IN /\ \A i, j \in 1..Len(fsResult) :
                 (i < j /\ ZeroLike(Val(fsResult[i])) /\ ~Tied(fsResult[j]))
                     => Before(Val(fsResult[i]), Val(fsResult[j]))
           /\ \A i, j \in 1..Len(fsResult) :
                 (i < j /\ ~Tied(fsResult[i]) /\ ZeroLike(Val(fsResult[j])))
                     => Before(Val(fsResult[i]), Val(fsResult[j]))
           /\ SelectSeq(fsResult, Tied) = SelectSeq(fsCall.positions, Tied)

\* C23 witness: <<xBT (timestamp 'abc'), BTC (0), btc (-3)>> sorted by
\* timestamp-asc has given <<btc, xBT, BTC>>: the non-numeric timestamp stands
\* behind the negative one and keeps its input place in front of the 0.
C23_Witness ==
    /\ fsCall.fn = "sort" /\ fsCall.nth = 1
    /\ fsCall.sortValue = "timestamp-asc"
    /\ fsCall.positions = <<PosXbtSell, PosBTC, PosBtcUpperLong>>
    /\ fsResult = <<PosBtcUpperLong, PosXbtSell, PosBTC>>

HasSymbol(p) == Get(p, "symbol").t = "string" /\ Get(p, "symbol").s # <<>>

\* C24: in symbol-asc and symbol-desc sorts a record whose symbol is
\* undefined or null is ordered as if its symbol were the empty string: it
\* stands before every record with a non-empty symbol in symbol-asc and
\* behind them in symbol-desc.
C24_MissingSymbolAsEmpty ==
    /\ (fsCall.fn = "sort" /\ fsCall.sortValue = "symbol-asc") =>
          \A i, j \in 1..Len(fsResult) :
              (HasSymbol(fsResult[i]) /\ Absent(Get(fsResult[j], "symbol"))) => j < i
    /\ (fsCall.fn = "sort" /\ fsCall.sortValue = "symbol-desc") =>
          \A i, j \in 1..Len(fsResult) :
              (HasSymbol(fsResult[i]) /\ Absent(Get(fsResult[j], "symbol"))) => i < j

(***************************************************************************)
(* fetchOpenPositions with a display collaborator whose showToast may      *)
(* throw.  window.ui.showToast is called in the catch block, outside any   *)
(* try: an exception it throws leaves the async function.                  *)
(***************************************************************************)
\* The awaited fetch settles with a retryable failure, attempts are left,
\* and window.ui.showToast(...) throws: the call rejects with that exception
\* before the retry delay is awaited.
AttemptSettlesToastThrows(r) ==
    /\ fpc = "inflight"
    /\ uiPresent
    /\ TryBlock(r, attempts + 1) # NoError
    /\ ~TryBlock(r, attempts + 1).isClientError
    /\ ~RetriesExhausted(attempts + 1, maxRetries)
    /\ responses' = Append(responses, r)
    /\ attempts' = attempts + 1
    /\ toasts' = Append(toasts, [attempt |-> attempts' + 1, max |-> maxRetries])
    /\ outcome' = Rejected(Thrown("notification", 0, attempts', FALSE), NoError)
    /\ fpc' = "done"
    /\ UNCHANGED <<maxRetries, uiPresent, httpCalls, waits>>
    /\ UNCHANGED notFetchVars

NextFetchNotify ==
    \/ StartAttempt
    \/ FallbackThrow
    \/ \E r \in Transport : AttemptSettles(r)
    \/ \E r \in Transport : AttemptSettlesToastThrows(r)
    \/ DelayElapses

SpecFetchNotify == FetchInit /\ [][NextFetchNotify]_vars

\* The outcome the responses received so far determine, the display
\* collaborator left aside
OutcomeOf(max, received) ==
    LET n == Len(received)
        error == TryBlock(received[n], n)
    IN IF error = NoError THEN Resolved(received[n].body)
       ELSE IF error.isClientError THEN Rejected(error, NoError)
       ELSE IF n >= max THEN Rejected(Thrown("exhausted", 0, n, FALSE), error)
       ELSE Pending

\* C25: exactly one progress notification is emitted before each
\* retry-delay wait when the display collaborator is present (the i-th
\* announces attempt i + 1 of maxRetries, so none comes before the first
\* attempt or after the last), and the attempts made, the waits and the
\* outcome are those the responses alone determine, whether the collaborator
\* is present or absent and whatever its notification call does.
C25_NotificationNoEffect ==
    /\ Len(toasts) = IF uiPresent THEN waits ELSE 0
    /\ \A i \in 1..Len(toasts) :
          toasts[i] = [attempt |-> i + 1, max |-> maxRetries] /\ i + 1 <= maxRetries
    /\ (maxRetries >= 1 /\ responses # <<>> /\ fpc # "inflight") =>
          /\ outcome = OutcomeOf(maxRetries, responses)
          /\ httpCalls = Len(responses)
          /\ waits = IF outcome = Pending THEN Len(responses) ELSE Len(responses) - 1

(***************************************************************************)
(* fetchOpenPositions under the claim's assumptions: every attempt ends    *)
(* (response, network error or the AbortSignal.timeout(10000) abort),      *)
(* every retry delay elapses, synchronous code runs on.                    *)
(***************************************************************************)
SpecFetchLive ==
    /\ FetchInit
    /\ [][NextFetch]_vars
    /\ WF_vars(StartAttempt)
    /\ WF_vars(FallbackThrow)
    /\ WF_vars(\E r \in Transport : AttemptSettles(r))
    /\ WF_vars(DelayElapses)

Settled ==
    \/ outcome.state = "resolved" /\ IsArrayBody(outcome.data)
    \/ outcome.state = "rejected" /\ outcome.error # NoError

\* C26: every call with maxRetries >= 1 eventually settles, resolved with
\* an array or rejected with an error, and stays settled; and an attempt
\* ended by the timeout is handled as a retryable failure like a network
\* error: it counts as an attempt, and the call waits for the retry delay
\* when attempts are left and rejects with the exhausted-retries error
\* caused by the timeout when none is.
C26_EventuallySettles ==
    /\ (maxRetries >= 1) ~> []Settled
    /\ [][(fpc = "inflight" /\ fpc' # "inflight"
             /\ responses'[Len(responses')].kind \in {"timeout", "network"})
          => /\ attempts' = attempts + 1
             /\ IF attempts' < maxRetries
                THEN fpc' = "waiting" /\ waits' = waits + 1 /\ outcome' = Pending
                ELSE /\ fpc' = "done"
                     /\ outcome'.state = "rejected"
                     /\ outcome'.error.kind = "exhausted"
                     /\ outcome'.cause.kind = responses'[Len(responses')].kind]_vars

\* C26 witness: with maxRetries = 3 the first attempt ended with the
\* timeout, the second with a network error, and the third returned an
\* array, which the call resolved with after two waits.
C26_Witness ==
    /\ maxRetries = 3
    /\ Len(responses) = 3
    /\ responses[1].kind = "timeout"
    /\ responses[2].kind = "network"
    /\ outcome = Resolved("array1")
    /\ waits = 2

(***************************************************************************)
(*                          i18n  (js/i18n.js)                             *)
(***************************************************************************)
\* const supportedLanguages = ['en', 'fa']
supportedLanguages == {"en", "fa"}

\* The values of a translation file. A text is the sequence of its pieces,
\* a placeholder {{name}} being one piece; an object maps the names of
\* EntryNames to values, Undefined for the names it does not have.
EntryNames == {"headerTitle", "greeting", "complex", "message", "onlyInEnglish"}
Entries(members) ==
    Object([name \in EntryNames |->
               IF name \in DOMAIN members THEN members[name] ELSE Undefined])

\* key.split('.'): the pieces between the dots
RECURSIVE SplitOnDot(_)
SplitOnDot(key) ==
    IF \E i \in 1..Len(key) : key[i] = "."
    THEN LET at == CHOOSE i \in 1..Len(key) :
                      key[i] = "." /\ \A j \in 1..(i - 1) : key[j] # "."
         IN <<SubSeq(key, 1, at - 1)>> \o SplitOnDot(SubSeq(key, at + 1, Len(key)))
    ELSE <<key>>

\* obj[i] for the property name i
Member(obj, name) ==
    IF Len(name) = 1 /\ name[1] \in DOMAIN obj.f THEN obj.f[name[1]] ELSE Undefined

\* parts.reduce((obj, i) => (obj && typeof obj === 'object' ? obj[i] : undefined), langSet)
RECURSIVE ReduceKey(_, _)
ReduceKey(parts, obj) ==
    IF parts = <<>> THEN obj
    ELSE ReduceKey(Tail(parts),
                   IF obj.t = "object" THEN Member(obj, Head(parts)) ELSE Undefined)

Placeholder == [name |-> "{{name}}"]

\* text.replace(new RegExp(`{{${varKey}}}`, 'g'), String(varValue)) for every
\* entry of vars
ReplaceVars(text, values) ==
    [i \in 1..Len(text) |->
        IF \E k \in DOMAIN values : values[k] # NotGiven /\ Placeholder[k] = text[i]
        THEN values[CHOOSE k \in DOMAIN values : values[k] # NotGiven /\ Placeholder[k] = text[i]]
        ELSE text[i]]

\* translations[lang]
LangSetOf(dictionaries, lang) ==
    IF lang \in DOMAIN dictionaries THEN dictionaries[lang] ELSE Undefined

\* translate without the lookup of the key in English
translateNoEnglishFallback(dictionaries, language, key, values) ==
    LET langSet == IF LangSetOf(dictionaries, language) # Undefined
                   THEN LangSetOf(dictionaries, language)
                   ELSE LangSetOf(dictionaries, "en")
    IN IF langSet = Undefined THEN key
       ELSE LET text == ReduceKey(SplitOnDot(key), langSet)
            IN IF text.t = "string" THEN ReplaceVars(text.s, values) ELSE key
\* translate(key, vars) with the translations object and window.currentLanguage
translate(dictionaries, language, key, values) ==
    LET langSet == IF LangSetOf(dictionaries, language) # Undefined
                   THEN LangSetOf(dictionaries, language)
                   ELSE LangSetOf(dictionaries, "en")
    IN IF langSet = Undefined THEN key
       ELSE LET first == ReduceKey(SplitOnDot(key), langSet)
                text  == IF first = Undefined /\ language # "en"
                               /\ LangSetOf(dictionaries, "en") # Undefined
                         THEN ReduceKey(SplitOnDot(key), LangSetOf(dictionaries, "en"))
                         ELSE first
            IN IF text.t = "string" THEN ReplaceVars(text.s, values) ELSE key

\* ---- translation files ----
EnFile ==
    Entries([headerTitle |-> Str(<<"Open Positions">>),
             greeting |-> Str(<<"Hello ", "{{name}}", "!">>),
             complex |-> Entries([message |-> Str(<<"Nested message">>)]),
             onlyInEnglish |-> Str(<<"English only">>)])
FaFile ==
    Entries([headerTitle |-> Str(<<"Mogheiyat-haye baz">>),
             greeting |-> Str(<<"Salam ", "{{name}}", "!">>),
             complex |-> Entries([greeting |-> Str(<<"Salam">>)])])
\* a file whose values are not all texts
OddFile ==
    Entries([greeting |-> Num(5),
             complex |-> Str(<<"flat">>),
             onlyInEnglish |-> Null])
\* translations['en'] = {}
EmptyFile == Entries([greeting |-> Undefined])
LocaleFile(lang) == IF lang = "fa" THEN FaFile ELSE EnFile

\* What applyTranslationsToPage writes: document.documentElement.lang and
\* the text of the element with data-i18n-key="headerTitle"
Page(dictionaries, language) ==
    [lang |-> language,
     headerTitle |-> translate(dictionaries, language, <<"headerTitle">>, NoVars)]

\* ---- translate called on its own ----
TranslationSets == [supportedLanguages -> {Undefined, EnFile, FaFile, OddFile, EmptyFile}]
TranslateKeys ==
    {<<"greeting">>, <<"complex", ".", "message">>, <<"complex", ".", "nope">>,
     <<"onlyInEnglish">>, <<"nonExistentKey">>, <<"greeting", ".", "message">>}

InitTranslate ==
    /\ currentLanguage \in {"en", "fa", "de"}
    /\ translations \in TranslationSets
    /\ preferredLanguage = "" /\ page = StaticPage /\ langToggle = FALSE
    /\ langCalls = <<>> /\ trCall = NoTrCall /\ trResult = <<>>

\* A caller runs translate(key, vars), once
CallTranslate(key, values) ==
    /\ ~trCall.made
    /\ trCall' = [made |-> TRUE, key |-> key, values |-> values]
    /\ trResult' = translate(translations, currentLanguage, key, values)
    /\ UNCHANGED <<currentLanguage, translations, preferredLanguage, page, langToggle,
                   langCalls>>
    /\ UNCHANGED <<fetchVars, validateVars, renderVars, objectVars, filterSortVars, uiVars,
                   appVars, debounceVars>>

NextTranslate ==
    \E key \in TranslateKeys, values \in {NoVars, [name |-> "World"]} :
        CallTranslate(key, values)

\* ---- initI18n, setLanguage and the language toggle ----

\* initI18n(): the initial language is the stored one if it is supported;
\* English is loaded (translations['en'] = {} when the file cannot be
\* loaded), then the file of the initial language; the page is translated
\* and the click listener of the toggle attached
InitI18n(enLoads, initialLoads) ==
    LET initialLang == IF preferredLanguage \in supportedLanguages
                       THEN preferredLanguage ELSE "en"
        loadedEn == IF initialLang = "en"
                    THEN (IF initialLoads THEN EnFile ELSE EmptyFile)
                    ELSE (IF enLoads THEN EnFile ELSE EmptyFile)
        loadedSets == [lang \in supportedLanguages |->
                          IF lang = "en" THEN loadedEn
                          ELSE IF lang = initialLang /\ initialLoads THEN LocaleFile(lang)
                          ELSE Undefined]
    IN /\ currentLanguage' = initialLang
       /\ translations' = loadedSets
       /\ page' = Page(loadedSets, initialLang)
       /\ langToggle' = TRUE
       /\ UNCHANGED <<preferredLanguage, langCalls, trCall, trResult>>

\* The rest of setLanguage(lang) after translations[lang] was found or its
\* loading has ended: applyTranslationsToPage(), applyFilterAndRender() if
\* window.currentPositionsData is set, localStorage.setItem
SetLanguageEnds(lang, dictionaries, language) ==
    /\ page' = Page(dictionaries, language)
    /\ preferredLanguage' = lang
    /\ IF loaded
       THEN ApplyFilterAndRender(allFetchedPositions, typeFilterValue, symbolSearchValue,
                                 sortByValue)
       ELSE UNCHANGED <<allFetchedPositions, uiSettings, renderVars>>
    /\ UNCHANGED <<loaded, searchTimer, typeFilterValue, symbolSearchValue, sortByValue>>

\* 'click' on the language toggle: setLanguage(the other language) up to its
\* await, or to its end when the translations are loaded
LanguageToggleClick ==
    /\ langToggle
    /\ Len(langCalls) < MaxLangCalls
    /\ LET lang == IF currentLanguage = "en" THEN "fa" ELSE "en"
       IN /\ currentLanguage' = lang
          /\ IF translations[lang] # Undefined
             THEN /\ SetLanguageEnds(lang, translations, lang)
                  /\ UNCHANGED langCalls
             ELSE /\ langCalls' = Append(langCalls, lang)
                  /\ UNCHANGED <<preferredLanguage, page, uiVars, renderVars>>
    /\ UNCHANGED <<translations, langToggle, trCall, trResult>>
    /\ UNCHANGED <<fetchVars, validateVars, objectVars, filterSortVars, appVars,
                   debounceVars>>

\* The loadTranslations(lang) awaited by the pending setLanguage call number i
\* ends, with the file stored or with the error logged, and the call resumes
TranslationsLoad(i, fileLoads) ==
    /\ i \in 1..Len(langCalls)
    /\ LET lang == langCalls[i]
           loadedSets == IF fileLoads
                         THEN [translations EXCEPT ![lang] = LocaleFile(lang)]
                         ELSE translations
       IN /\ translations' = loadedSets
          /\ SetLanguageEnds(lang, loadedSets, currentLanguage)
    /\ langCalls' = SubSeq(langCalls, 1, i - 1) \o SubSeq(langCalls, i + 1, Len(langCalls))
    /\ UNCHANGED <<currentLanguage, langToggle, trCall, trResult>>
    /\ UNCHANGED <<fetchVars, validateVars, objectVars, filterSortVars, appVars,
                   debounceVars>>

\* The page loads and initI18n runs
InitI18nRuns(enLoads, initialLoads) ==
    /\ ~langToggle
    /\ InitI18n(enLoads, initialLoads)
    /\ UNCHANGED <<fetchVars, validateVars, renderVars, objectVars, filterSortVars, uiVars,
                   appVars, debounceVars>>

InitLanguage ==
    /\ currentLanguage = "en" /\ translations = NoTranslations
    /\ preferredLanguage \in {"", "en", "fa", "de"}
    /\ page = StaticPage /\ langToggle = FALSE
    /\ langCalls = <<>> /\ trCall = NoTrCall /\ trResult = <<>>

NextLanguage ==
    \/ \E enLoads, initialLoads \in BOOLEAN : InitI18nRuns(enLoads, initialLoads)
    \/ \E validatedPositions \in FetchedLists(1) : DisplayPositions(validatedPositions)
    \/ LanguageToggleClick
    \/ \E i \in 1..MaxLangCalls, fileLoads \in BOOLEAN : TranslationsLoad(i, fileLoads)

(***************************************************************************)
(*                         mainApp  (js/app.js)                            *)
(* The page loads, mainApp restores the saved controls, shows the loading  *)
(* indicator and awaits fetchOpenPositions(API_URL, 3, 2500); the rest of  *)
(* its body runs when the call settles.  The control listeners of ui.js    *)
(* are live from the load of the script on.                                *)
(***************************************************************************)
MaxRaw == 2

\* window.ui.loadAndApplyUiSettings(): the values the three controls hold
\* after it, given the stored item and the values they held
loadAndApplyUiSettings(settings, filterTypeValue, searchValue, sortValue) ==
    IF ~settings.saved
    THEN [typeFilter |-> filterTypeValue, symbolSearch |-> searchValue, sortBy |-> sortValue]
    ELSE [typeFilter |-> IF settings.typeFilter # <<>> /\ settings.typeFilter \in TypeFilterOptions
                         THEN settings.typeFilter ELSE filterTypeValue,
          symbolSearch |-> settings.symbolSearch,
          sortBy |-> IF settings.sortBy # "" /\ settings.sortBy \in SortValues
                     THEN settings.sortBy ELSE sortValue]

\* const API_URL
API_URL == <<"Y", "O", "U", "R", "_", "A", "P", "I", "_", "E", "N", "D", "P",
           "O", "I", "N", "T", "_", "H", "E", "R", "E">>

StartsWith(cs, term) == Len(cs) >= Len(term) /\ SubSeq(cs, 1, Len(term)) = term

\* errorData?.message || response.statusText || `Client Error ${response.status}`
clientErrorMessage(status, bodyMessage, statusText) ==
    IF bodyMessage # <<>> THEN bodyMessage
    ELSE IF statusText # <<>> THEN statusText
    ELSE <<"C", "l", "i", "e", "n", "t", " ", "E", "r", "r", "o", "r", " ">> \o NumberToString(status)

\* The message of the error the try block of fetchOpenPositions throws:
\* text is the client error message or the status text of an HTTP error,
\* and the message of the exception fetch or response.json() threw otherwise
ErrorMessage(error, text) ==
    CASE error.kind = "client" ->
            <<"A", "P", "I", " ", "C", "l", "i", "e", "n", "t", " ", "E",
            "r", "r", "o", "r", ":", " ">>
                \o NumberToString(error.status) \o <<" ">> \o text
      [] error.kind = "server" ->
            <<"S", "e", "r", "v", "e", "r", " ", "E", "r", "r", "o", "r",
            ":", " ">>
                \o NumberToString(error.status) \o <<" ">> \o text
      [] error.kind = "malformed" ->
            <<"I", "n", "v", "a", "l", "i", "d", " ", "A", "P", "I", " ",
            "r", "e", "s", "p", "o", "n", "s", "e", " ", "f", "o", "r", "m",
            "a", "t", ":", " ", "E", "x", "p", "e", "c", "t", "e", "d", " ",
            "a", "n", " ", "a", "r", "r", "a", "y", " ", "o", "f", " ", "p",
            "o", "s", "i", "t", "i", "o", "n", "s", ".">>
      [] OTHER -> text

\* `Failed to fetch data from ${apiUrl} after ${maxRetries} attempts. Last
\* error: ${error.message}`
FinalErrorMessage(apiUrl, max, lastMessage) ==
    <<"F", "a", "i", "l", "e", "d", " ", "t", "o", " ", "f", "e", "t", "c",
    "h", " ", "d", "a", "t", "a", " ", "f", "r", "o", "m", " ">> \o apiUrl
        \o <<" ", "a", "f", "t", "e", "r", " ">> \o NumberToString(max)
        \o <<" ", "a", "t", "t", "e", "m", "p", "t", "s", ".", " ", "L", "a",
           "s", "t", " ", "e", "r", "r", "o", "r", ":", " ">>
        \o lastMessage

\* The key the catch block of mainApp chooses from error.isClientError and
\* error.message
errorMessageKey(message, isClientError) ==
    IF isClientError
    THEN IF Includes(message, <<"4", "0", "1">>) \/ Includes(message, <<"4", "0", "3">>)
         THEN "errorUnauthorized"
         ELSE IF Includes(message, <<"4", "0", "4">>) THEN "errorNotFound"
         ELSE "errorClientGeneric"
    ELSE IF Includes(message, <<"I", "n", "v", "a", "l", "i", "d", " ", "A", "P", "I",
                 " ", "r", "e", "s", "p", "o", "n", "s", "e", " ", "f", "o",
                 "r", "m", "a", "t">>)
    THEN "errorInvalidResponse"
    ELSE IF StartsWith(message, <<"S", "e", "r", "v", "e", "r", " ", "E", "r", "r", "o",
                   "r", ":">>)
    THEN "errorServerGeneric"
    ELSE IF Includes(message, <<"F", "a", "i", "l", "e", "d", " ", "t", "o", " ", "f",
                 "e", "t", "c", "h">>)
            \/ Includes(message, <<"N", "e", "t", "w", "o", "r", "k", "E", "r", "r", "o",
                 "r">>)
            \/ Includes(message, <<"A", "b", "o", "r", "t", "E", "r", "r", "o", "r">>)
    THEN "errorFailedToFetch"
    ELSE "errorMessageDefault"

\* mainApp up to the await of fetchOpenPositions: loadAndApplyUiSettings(),
\* setLoading(true)
MainAppStarts ==
    /\ apc = "start"
    /\ LET restored == loadAndApplyUiSettings(uiSettings, typeFilterValue,
                                              symbolSearchValue, sortByValue)
       IN /\ typeFilterValue' = restored.typeFilter
          /\ symbolSearchValue' = restored.symbolSearch
          /\ sortByValue' = restored.sortBy
    /\ InitI18n(TRUE, TRUE)
    /\ loadingIndicator' = TRUE
    /\ errorMessage' = ""
    /\ emptyState' = ""
    /\ gridShown' = FALSE
    /\ appCalls' = Append(appCalls, "setLoading(true)")
    /\ apc' = "fetching"
    /\ UNCHANGED <<fetched, allFetchedPositions, loaded, searchTimer, uiSettings>>
    /\ UNCHANGED <<currentlyDisplayedPositions, currentRenderIndex, grid, observing,
                   queuedEntries, lastOp>>
    /\ UNCHANGED <<fetchVars, validateVars, objectVars, filterSortVars, debounceVars>>

\* fetchOpenPositions resolves with rawPositions: the rest of the try block
\* and the finally block run
FetchResolves(rawPositions) ==
    /\ apc = "fetching"
    /\ fetched' = [NotFetched EXCEPT !.state = "resolved", !.raw = rawPositions]
    /\ apc' = "done"
    /\ loadingIndicator' = FALSE
    /\ LET checked == validatePositionsArray(Array(rawPositions))
           warned == IF Len(checked.errors) > 0 /\ Len(checked.validatedPositions) > 0
                     THEN <<"showToast(somePositionsInvalid)">> ELSE <<>>
       IN IF checked.threw
          THEN /\ errorMessage' = "errorMessageDefault"
               /\ emptyState' = ""
               /\ gridShown' = FALSE
               /\ appCalls' = appCalls \o <<"validatePositionsArray", "displayError",
                                            "setLoading(false)">>
               /\ UNCHANGED <<allFetchedPositions, loaded, uiSettings>>
               /\ UNCHANGED <<currentlyDisplayedPositions, currentRenderIndex, grid,
                              observing, queuedEntries, lastOp>>
          ELSE IF Len(checked.validatedPositions) = 0 /\ Len(rawPositions) > 0
          THEN /\ errorMessage' = "noPositionsAfterValidation"
               /\ emptyState' = ""
               /\ gridShown' = FALSE
               /\ appCalls' = appCalls \o <<"validatePositionsArray", "displayError",
                                            "setLoading(false)">>
               /\ UNCHANGED <<allFetchedPositions, loaded, uiSettings>>
               /\ UNCHANGED <<currentlyDisplayedPositions, currentRenderIndex, grid,
                              observing, queuedEntries, lastOp>>
          ELSE /\ ApplyFilterAndRender(checked.validatedPositions, typeFilterValue,
                                       symbolSearchValue, sortByValue)
               /\ loaded' = TRUE
               /\ appCalls' = appCalls \o <<"validatePositionsArray">> \o warned
                                       \o <<"displayPositions", "setLoading(false)">>
               /\ UNCHANGED errorMessage
    /\ UNCHANGED <<searchTimer, typeFilterValue, symbolSearchValue, sortByValue>>
    /\ UNCHANGED <<fetchVars, validateVars, objectVars, filterSortVars, i18nVars,
                   debounceVars>>

\* A catch block that shows the empty list instead of the error
FetchRejectsShowsEmptyList(failure) ==
    /\ apc = "fetching"
    /\ fetched' = [NotFetched EXCEPT !.state = "rejected", !.error = failure.error,
                                     !.cause = failure.cause,
                                     !.message = failure.message]
    /\ apc' = "done"
    /\ loadingIndicator' = FALSE
    /\ ApplyFilterAndRender(<<>>, typeFilterValue, symbolSearchValue, sortByValue)
    /\ loaded' = TRUE
    /\ appCalls' = appCalls \o <<"displayPositions", "setLoading(false)">>
    /\ UNCHANGED errorMessage
    /\ UNCHANGED <<searchTimer, typeFilterValue, symbolSearchValue, sortByValue>>
    /\ UNCHANGED <<fetchVars, validateVars, objectVars, filterSortVars, i18nVars,
                   debounceVars>>

\* fetchOpenPositions rejects: the catch block and the finally block run
FetchRejects(failure) ==
    /\ apc = "fetching"
    /\ fetched' = [NotFetched EXCEPT !.state = "rejected", !.error = failure.error,
                                     !.cause = failure.cause,
                                     !.message = failure.message]
    /\ apc' = "done"
    /\ loadingIndicator' = FALSE
    /\ errorMessage' = errorMessageKey(failure.message, failure.error.isClientError)
    /\ emptyState' = ""
    /\ gridShown' = FALSE
    /\ appCalls' = appCalls \o <<"displayError", "setLoading(false)">>
    /\ UNCHANGED <<currentlyDisplayedPositions, currentRenderIndex, grid, observing,
                   queuedEntries, lastOp>>
    /\ UNCHANGED uiVars
    /\ UNCHANGED <<fetchVars, validateVars, objectVars, filterSortVars, i18nVars,
                   debounceVars>>

\* The page is unloaded and loaded again: every script variable and
\* control starts anew, the localStorage item stays
PageReload ==
    /\ apc # "start"
    /\ apc' = "start" /\ fetched' = NotFetched /\ loadingIndicator' = TRUE
    /\ errorMessage' = "" /\ appCalls' = <<>>
    /\ currentLanguage' = "en" /\ translations' = NoTranslations
    /\ page' = StaticPage /\ langToggle' = FALSE /\ langCalls' = <<>>
    /\ UNCHANGED <<preferredLanguage, trCall, trResult>>
    /\ currentlyDisplayedPositions' = <<>> /\ currentRenderIndex' = 0 /\ grid' = <<>>
    /\ observing' = FALSE /\ queuedEntries' = 0
    /\ lastOp' = [op |-> "none", list |-> 0, len |-> 0, prev |-> 0]
    /\ emptyState' = "" /\ gridShown' = TRUE
    /\ allFetchedPositions' = <<>> /\ loaded' = FALSE /\ searchTimer' = FALSE
    /\ typeFilterValue' = AllTypes /\ symbolSearchValue' = <<>> /\ sortByValue' = "default"
    /\ UNCHANGED uiSettings
    /\ UNCHANGED <<fetchVars, validateVars, objectVars, filterSortVars, debounceVars>>

\* ---- inputs ----
\* What fetchOpenPositions(API_URL, 3, 2500) can reject with: a client
\* error of the first attempt, with the message of the JSON error body and
\* the status text the server sent, or the final error after three failed
\* attempts, with the message of the last one.  The messages of the
\* exceptions fetch and response.json() throw are the browser's.
FetchFailures ==
    {[error |-> Thrown("client", st, 1, TRUE), cause |-> NoError,
      message |-> ErrorMessage(Thrown("client", st, 1, TRUE),
                               clientErrorMessage(st, bodyMessage, statusText))] :
        st \in {400, 401, 403, 404},
        bodyMessage \in {<<>>, <<"t", "o", "k", "e", "n", " ", "4", "0", "1", " ",
                         "e", "x", "p", "i", "r", "e", "d">>,
                         <<"n", "o", " ", "i", "t", "e", "m", " ", "4", "0",
                         "4", "0">>},
        statusText \in {<<>>, <<"B", "a", "d", " ", "R", "e", "q", "u", "e", "s",
                        "t">>}}
    \cup
    {[error |-> Thrown("exhausted", 0, 3, FALSE), cause |-> last.error,
      message |-> FinalErrorMessage(API_URL, 3, ErrorMessage(last.error, last.text))] :
        last \in
          {[error |-> Thrown("network", 0, 3, FALSE),
            text |-> <<"F", "a", "i", "l", "e", "d", " ", "t", "o", " ", "f",
                    "e", "t", "c", "h">>],
           [error |-> Thrown("network", 0, 3, FALSE),
            text |-> <<"L", "o", "a", "d", " ", "f", "a", "i", "l", "e", "d">>],
           [error |-> Thrown("timeout", 0, 3, FALSE),
            text |-> <<"s", "i", "g", "n", "a", "l", " ", "t", "i", "m", "e",
                    "d", " ", "o", "u", "t">>],
           [error |-> Thrown("server", 500, 3, FALSE), text |-> <<>>],
           [error |-> Thrown("server", 503, 3, FALSE),
            text |-> <<"S", "e", "r", "v", "i", "c", "e", " ", "U", "n", "a",
                    "v", "a", "i", "l", "a", "b", "l", "e">>],
           [error |-> Thrown("syntax", 200, 3, FALSE),
            text |-> <<"U", "n", "e", "x", "p", "e", "c", "t", "e", "d", " ",
                    "t", "o", "k", "e", "n", " ", "<">>],
           [error |-> Thrown("malformed", 200, 3, FALSE), text |-> <<>>]}}

NextApp ==
    \/ MainAppStarts
    \/ \E rawPositions \in
            UNION {[1..k -> {ValidLong, ValidSellStringPrice, MissingPrice, Element(Null)}] :
                      k \in 0..MaxRaw} :
          FetchResolves(rawPositions)
    \/ \E failure \in FetchFailures : FetchRejects(failure)
    \/ \E value \in TypeFilterOptions : TypeFilterChange(value)
    \/ \E value \in {"default", "symbol-asc"} : SortByChange(value)
    \/ \E value \in {<<>>, <<"b", "t">>} : SymbolSearchInput(value)
    \/ DebounceElapses
    \/ PageReload

AppInit ==
    IdleApp /\ InitUi /\ InitRender /\ IdleFetch /\ IdleValidate /\ IdleObject
    /\ IdleFilterSort /\ IdleI18n /\ IdleDebounce
SpecApp == AppInit /\ [][NextApp]_vars

(***************************************************************************)
(* Claims about the orchestrator.                                          *)
(***************************************************************************)
\* The type filter or the search term of the last applyFilterAndRender,
\* which saveUiSettings recorded, was active
FilterWasActive ==
    uiSettings.saved /\ (uiSettings.typeFilter # AllTypes \/ Trim(uiSettings.symbolSearch) # <<>>)

\* C27: when renderPositions receives an empty display list the reason
\* shown is 'no data at all' (noPositionsMessage) if no positions were
\* fetched, and 'filtered to empty' (noPositionsMatchFilter) if fetched
\* positions exist and the active type filter or search term excludes all of
\* them; it is never 'filtered to empty' when nothing was fetched.
C27_EmptyStateReason ==
    /\ emptyState \in {"", "noPositionsMessage", "noPositionsMatchFilter"}
    /\ emptyState # "" => currentlyDisplayedPositions = <<>>
    /\ (lastOp.op = "renderPositions" /\ lastOp.len = 0 /\ apc = "done"
          /\ errorMessage = "") => emptyState # ""
    /\ (emptyState # "" /\ allFetchedPositions = <<>>) => emptyState = "noPositionsMessage"
    /\ (emptyState # "" /\ allFetchedPositions # <<>>) =>
          (emptyState = "noPositionsMatchFilter" /\ FilterWasActive)
    /\ emptyState = "noPositionsMatchFilter" => allFetchedPositions # <<>>

\* C27 witness: the fetch returned an empty list while the type filter read
\* 'long'; displayPositions([]) has shown the reason 'no data at all'.
C27_Witness ==
    /\ apc = "done"
    /\ fetched.state = "resolved" /\ fetched.raw = <<>>
    /\ typeFilterValue = <<"l", "o", "n", "g">>
    /\ FilterWasActive
    /\ lastOp.op = "renderPositions" /\ lastOp.len = 0
    /\ emptyState = "noPositionsMessage"

Count(calls, name) == Cardinality({i \in 1..Len(calls) : calls[i] = name})
IsAccepted(element) == validatePositionObject(element).isValid

\* C28: after a successful fetch mainApp reaches exactly one outcome: some
\* record accepted -> displayPositions with the accepted records, and the
\* warning toast if and only if some record was rejected; no record accepted
\* from a non-empty raw list -> the error state, no display; empty raw list
\* -> displayPositions([]) with no error and no warning.
C28_OneOutcome ==
    (apc = "done" /\ fetched.state = "resolved") =>
        LET accepted == SelectSeq(fetched.raw, IsAccepted)
            shown == Count(appCalls, "displayPositions")
            errors == Count(appCalls, "displayError")
            warnings == Count(appCalls, "showToast(somePositionsInvalid)")
        IN /\ shown + errors = 1
           /\ accepted # <<>> =>
                 /\ shown = 1
                 /\ Len(allFetchedPositions) = Len(accepted)
                 /\ warnings = IF Len(accepted) < Len(fetched.raw) THEN 1 ELSE 0
           /\ (accepted = <<>> /\ fetched.raw # <<>>) =>
                 (errors = 1 /\ warnings = 0 /\ errorMessage # "")
           /\ fetched.raw = <<>> =>
                 (shown = 1 /\ warnings = 0 /\ errorMessage = "" /\ allFetchedPositions = <<>>)

\* C29: when fetchOpenPositions fails mainApp calls neither the validator
\* nor displayPositions for that fetch and shows exactly one error state;
\* and on every path (display, validation failure, fetch failure) mainApp
\* ends with setLoading(false), the loading indicator hidden, which was shown
\* while the fetch was awaited.
C29_FetchFailure ==
    /\ (apc = "done" /\ fetched.state = "rejected") =>
          /\ Count(appCalls, "validatePositionsArray") = 0
          /\ Count(appCalls, "displayPositions") = 0
          /\ Count(appCalls, "displayError") = 1
          /\ errorMessage = errorMessageKey(fetched.message, fetched.error.isClientError)
          /\ ~loaded /\ allFetchedPositions = <<>>
    /\ apc = "fetching" => loadingIndicator
    /\ apc = "done" =>
          /\ ~loadingIndicator
          /\ appCalls[Len(appCalls)] = "setLoading(false)"
          /\ Count(appCalls, "setLoading(false)") = 1

\* C29 witness: the three attempts ended with the timeout; mainApp has
\* shown the error errorFailedToFetch and hidden the loading indicator.
C29_Witness ==
    /\ apc = "done"
    /\ fetched.state = "rejected"
    /\ fetched.error.kind = "exhausted" /\ fetched.cause.kind = "timeout"
    /\ errorMessage = "errorFailedToFetch"
    /\ appCalls = <<"setLoading(true)", "displayError", "setLoading(false)">>
    /\ ~loadingIndicator

\* C30: every change of the UI preferences is written to the persisted
\* settings and the next startup restores the same three values: once
\* mainApp has restored the controls, at any moment (a page unload may come
\* at any moment) the persisted settings hold the values the controls read,
\* and nothing is persisted only while the controls read their defaults.
C30_SettingsPersisted ==
    apc # "start" =>
        IF uiSettings.saved
        THEN uiSettings = SavedSettings(typeFilterValue, symbolSearchValue, sortByValue)
        ELSE typeFilterValue = AllTypes /\ symbolSearchValue = <<>> /\ sortByValue = "default"

\* C31: a terminal client error is mapped by mainApp to the message key
\* its HTTP status determines: 401 or 403 -> errorUnauthorized, 404 ->
\* errorNotFound, every other 4xx status -> errorClientGeneric, whatever
\* message text the server sent with the response.
C31_ClientErrorKeyByStatus ==
    (apc = "done" /\ fetched.state = "rejected" /\ fetched.error.isClientError) =>
        errorMessage = IF fetched.error.status \in {401, 403} THEN "errorUnauthorized"
                       ELSE IF fetched.error.status = 404 THEN "errorNotFound"
                       ELSE "errorClientGeneric"

\* C35: when fetchOpenPositions has exhausted its retries on HTTP 5xx
\* responses mainApp shows errorServerGeneric; when it has exhausted them on
\* network errors or timeouts it shows errorFailedToFetch.
C35_ExhaustedErrorKey ==
    (apc = "done" /\ fetched.state = "rejected" /\ fetched.error.kind = "exhausted") =>
        /\ fetched.cause.kind = "server" => errorMessage = "errorServerGeneric"
        /\ fetched.cause.kind \in {"network", "timeout"} => errorMessage = "errorFailedToFetch"

(***************************************************************************)
(* Claims about the fallback throw after the retry loop.                   *)
(***************************************************************************)
FallbackReached ==
    fpc = "done" /\ outcome.state = "rejected" /\ outcome.error.kind = "unexpected"

positionTypeClass(position) ==
    IF Truthy(Get(position, "type"))
    THEN LET typeLower == ToLowerCase(StringOf(Get(position, "type")))
         IN IF typeLower = <<"l", "o", "n", "g">> \/ typeLower = <<"b", "u", "y">>
            THEN <<"l", "o", "n", "g">>
            ELSE IF typeLower = <<"s", "h", "o", "r", "t">>
                       \/ typeLower = <<"s", "e", "l", "l">>
            THEN <<"s", "h", "o", "r", "t">>
            ELSE <<"u", "n", "k", "n", "o", "w", "n">>
    ELSE <<"u", "n", "k", "n", "o", "w", "n">>

\* C40: a type filter 'long' or 'short' with no search term keeps every
\* position of the list whose card is rendered with that class (type long or
\* buy for 'long', type short or sell for 'short', whatever the case).
C40_FilterKeepsCardClass ==
    (/\ fsCall.fn = "filter" /\ fsCall.searchTerm = <<>>
     /\ fsCall.filterTypeValue \in {<<"l", "o", "n", "g">>, <<"s", "h", "o", "r", "t">>}) =>
        \A i \in 1..Len(fsCall.positions) :
            positionTypeClass(fsCall.positions[i]) = fsCall.filterTypeValue =>
                \E j \in 1..Len(fsResult) : fsResult[j] = fsCall.positions[i]

(***************************************************************************)
(* The render controller without a reset: one renderPositions call, then   *)
(* near-end signals and observer callbacks only.  The observer reports the *)
(* sentinel whenever it is observed (the sentinel stays within the root    *)
(* margin) and the event loop delivers every queued entry to the callback, *)
(* hence the weak fairness of both steps.                                  *)
(***************************************************************************)
\* The only renderPositions call of the run
FirstRenderPositions(g, n) ==
    /\ lastOp.op = "none"
    /\ RenderPositions(g, n)

NextRenderLive ==
    \/ \E g \in Generations, n \in 0..MaxListLen : FirstRenderPositions(g, n)
    \/ SentinelIntersects
    \/ ObserverCallback

\* The event loop takes a queued entry off the queue and runs the observer
\* callback for it: the steps of ObserverCallback are the steps of the
\* specification that shorten the queue, and they are enabled exactly when
\* an entry is queued.
EntryDelivered ==
    /\ queuedEntries > 0
    /\ queuedEntries' \in 0..(queuedEntries - 1)

SpecRenderLive ==
    /\ RenderInit
    /\ [][NextRenderLive]_vars
    /\ WF_vars(SentinelIntersects)
    /\ WF_queuedEntries(EntryDelivered)

WholeListRendered ==
    /\ currentRenderIndex = Len(currentlyDisplayedPositions)
    /\ CardPositions(grid) = currentlyDisplayedPositions
    /\ ~HasSentinel(grid)

\* C36: with no reset after renderPositions(list) and the near-end signal
\* firing whenever the sentinel is observed, the controller eventually has
\* rendered the whole list and stays there: cursor = length, the cards are
\* the items of the list, each once and in order, and the sentinel is gone.
\* Every batch that moves the cursor moves it to min(cursor + 15, length), so
\* the cursor reaches length with batch number ceil(length / 15) and the
\* whole list is not rendered before it.
C36_EventuallyWholeList ==
    /\ (lastOp.op # "none") ~> []WholeListRendered
    /\ [][lastOp.op # "none" =>
            /\ currentlyDisplayedPositions' = currentlyDisplayedPositions
            /\ currentRenderIndex' # currentRenderIndex =>
                  /\ currentRenderIndex' = Min(currentRenderIndex + renderBatchSize,
                                               Len(currentlyDisplayedPositions))
                  /\ ~WholeListRendered]_vars
    /\ [](lastOp.op # "none" =>
            \/ currentRenderIndex = Len(currentlyDisplayedPositions)
            \/ currentRenderIndex % renderBatchSize = 0 /\ currentRenderIndex > 0)

\* C36 witness: a list of three batches is rendered whole by the first batch
\* of renderPositions and two observer callbacks, and nothing is queued.
C36_Witness ==
    /\ lastOp.op = "renderNextBatch"
    /\ Len(currentlyDisplayedPositions) = MaxListLen
    /\ WholeListRendered
    /\ ~observing /\ queuedEntries = 0

(***************************************************************************)
(* Claims about translate.                                                 *)
(***************************************************************************)
TranslateInit ==
    InitTranslate /\ IdleFetch /\ IdleValidate /\ IdleRender /\ IdleObject
    /\ IdleFilterSort /\ IdleUi /\ IdleApp /\ IdleDebounce
SpecTranslate == TranslateInit /\ [][NextTranslate]_vars

\* The value the key of the call names in the translations of a language:
\* Undefined when the language is not loaded or a part of the key is missing
ValueIn(lang) ==
    IF LangSetOf(translations, lang) = Undefined THEN Undefined
    ELSE ReduceKey(SplitOnDot(trCall.key), LangSetOf(translations, lang))
\* The language whose translations the call reads first
ReadFirst ==
    IF LangSetOf(translations, currentLanguage) # Undefined THEN currentLanguage ELSE "en"

LanguageInit ==
    InitLanguage /\ IdleFetch /\ IdleValidate /\ IdleRender /\ IdleObject
    /\ IdleFilterSort /\ IdleUi /\ IdleApp /\ IdleDebounce
SpecLanguage == LanguageInit /\ [][NextLanguage]_vars

\* C38: when no setLanguage call is pending (and the stored language is one
\* a setLanguage call or the user's earlier visit stored), the stored
\* preferredLanguage equals window.currentLanguage and the page shows the
\* texts and the lang attribute of that language.
C38_StoredLanguageIsCurrent ==
    (langToggle /\ langCalls = <<>> /\ preferredLanguage \in supportedLanguages) =>
        /\ preferredLanguage = currentLanguage
        /\ page = Page(translations, currentLanguage)

(***************************************************************************)
(* mainApp with the events of the user: the filter, sort and search        *)
(* controls and the language toggle, in any interleaving with the awaited  *)
(* fetch and its settlement.                                               *)
(***************************************************************************)
NextAppEvents ==
    \/ MainAppStarts
    \/ \E rawPositions \in {<<>>, <<ValidLong>>, <<MissingPrice>>,
                            <<ValidSellStringPrice, ValidLong>>} :
          FetchResolves(rawPositions)
    \/ \E failure \in {f \in FetchFailures :
                          \/ f.error.isClientError /\ f.error.status = 404
                          \/ f.cause.kind \in {"network", "server"}} :
          FetchRejects(failure)
    \/ \E value \in TypeFilterOptions : TypeFilterChange(value)
    \/ \E value \in {"default", "symbol-asc"} : SortByChange(value)
    \/ \E value \in {<<>>, <<"b", "t">>} : SymbolSearchInput(value)
    \/ DebounceElapses
    \/ LanguageToggleClick
    \/ \E i \in 1..MaxLangCalls, fileLoads \in BOOLEAN : TranslationsLoad(i, fileLoads)

SpecAppEvents == AppInit /\ [][NextAppEvents]_vars

\* The display states that are visible: the loading indicator, the error
\* message, the empty-state message, and the grid with its cards
VisibleStates ==
    {state \in {"loading", "error", "empty", "grid"} :
        \/ state = "loading" /\ loadingIndicator
        \/ state = "error" /\ errorMessage # ""
        \/ state = "empty" /\ emptyState # ""
        \/ state = "grid" /\ gridShown /\ Cards(grid) # <<>>}

\* C34: from the moment mainApp has called setLoading(true), at most one of
\* the loading indicator, the error message, the empty-state message and the
\* grid of cards is visible, whatever control and language events occur
\* while the fetch is awaited and after it has settled.
C34_OneDisplayState ==
    apc # "start" => Cardinality(VisibleStates) <= 1

\* The display list is the stored list filtered by the type filter and the
\* lowercased, trimmed search box value and sorted by the sort control
DisplayIsCurrent ==
    currentlyDisplayedPositions =
        _sortPositionsLogic(
            _filterPositionsLogic(allFetchedPositions, typeFilterValue,
                                  Trim(ToLowerCase(symbolSearchValue))).result,
            sortByValue).result
\* The stored settings are the values of the three controls; while nothing
\* is stored, the controls hold the values the page starts with
SettingsAreCurrent ==
    IF uiSettings.saved
    THEN uiSettings = [saved |-> TRUE, typeFilter |-> typeFilterValue,
                       symbolSearch |-> symbolSearchValue, sortBy |-> sortByValue]
    ELSE /\ typeFilterValue = AllTypes
         /\ symbolSearchValue = <<>>
         /\ sortByValue = "default"

\* A filter or sort change, the debounced search or displayPositions ends
ControlEventEnds ==
    \/ typeFilterValue' # typeFilterValue
    \/ sortByValue' # sortByValue
    \/ searchTimer /\ ~searchTimer'
    \/ ~loaded /\ loaded'
\* A setLanguage call ends: at once, or after its loadTranslations
LanguageEventEnds ==
    \/ Len(langCalls') < Len(langCalls)
    \/ langToggle /\ currentLanguage' # currentLanguage /\ langCalls' = langCalls

clearTimeout(pending, live) ==
    IF live /\ pending # <<>> THEN SubSeq(pending, 1, Len(pending) - 1) ELSE pending

\* executedFunction that sets its timeout without clearing the one before
executedFunctionKeepsTimeout(pending, live) ==
    [timers |-> Append(pending, DebounceWait), live |-> TRUE]
\* executedFunction(...args): clearTimeout(timeout); timeout = setTimeout(later, wait)
executedFunction(pending, live) ==
    [timers |-> Append(clearTimeout(pending, live), DebounceWait), live |-> TRUE]

\* The pending timeouts without timeout i, which is running later(), and
\* without the one later() clears with clearTimeout(timeout)
later(pending, live, i) ==
    LET others == [j \in 1..(Len(pending) - 1) |->
                      IF j < i THEN pending[j] ELSE pending[j + 1]]
    IN clearTimeout(others, live /\ i # Len(pending))

\* 'input' on #symbol-search with the box reading value
InputEvent(value) ==
    LET set == executedFunction(timers, timeoutLive)
    IN /\ value # symbolSearchValue
       /\ timers # <<>> => inputEvents < MaxInputs
       /\ symbolSearchValue' = value
       /\ timers' = set.timers
       /\ timeoutLive' = set.live
       /\ searchTimer' = TRUE
       /\ sinceInput' = 0
       /\ inputEvents' = IF timers = <<>> THEN 1 ELSE inputEvents + 1
       /\ searchRuns' = 0
       /\ UNCHANGED <<allFetchedPositions, loaded, typeFilterValue, sortByValue,
                      uiSettings>>
       /\ UNCHANGED <<fetchVars, validateVars, renderVars, objectVars, filterSortVars,
                      appVars, i18nVars>>

\* 100 ms pass; a timeout that is due stays due until the event loop runs it
TimePasses ==
    /\ sinceInput < DebounceWait \/ \E i \in 1..Len(timers) : timers[i] > 0
    /\ sinceInput' = Min(sinceInput + 1, DebounceWait)
    /\ timers' = [i \in 1..Len(timers) |-> IF timers[i] > 0 THEN timers[i] - 1 ELSE 0]
    /\ UNCHANGED <<timeoutLive, inputEvents, searchRuns>>
    /\ UNCHANGED <<allFetchedPositions, loaded, searchTimer, typeFilterValue,
                   symbolSearchValue, sortByValue, uiSettings>>
    /\ UNCHANGED <<fetchVars, validateVars, renderVars, objectVars, filterSortVars,
                   appVars, i18nVars>>

\* The event loop runs later() of timeout i, which is due:
\* clearTimeout(timeout); func(...args), func being applyFilterAndRender
TimerFires(i) ==
    /\ i \in 1..Len(timers)
    /\ timers[i] = 0
    /\ timers' = later(timers, timeoutLive, i)
    /\ timeoutLive' = FALSE
    /\ searchTimer' = (timers' # <<>>)
    /\ searchRuns' = searchRuns + 1
    /\ ApplyFilterAndRender(allFetchedPositions, typeFilterValue, symbolSearchValue,
                            sortByValue)
    /\ UNCHANGED <<loaded, typeFilterValue, symbolSearchValue, sortByValue>>
    /\ UNCHANGED <<sinceInput, inputEvents>>
    /\ UNCHANGED <<fetchVars, validateVars, objectVars, filterSortVars, appVars,
                   i18nVars>>

NextSearch ==
    \/ \E validatedPositions \in FetchedLists(1) : DisplayPositions(validatedPositions)
    \/ \E value \in SearchBoxValues : InputEvent(value)
    \/ TimePasses
    \/ \E i \in 1..MaxInputs : TimerFires(i)

\* Time goes on
TimeAdvances == sinceInput < DebounceWait /\ sinceInput' = sinceInput + 1
\* The event loop runs a timeout that is due
DueTimeoutRuns ==
    /\ \E i \in 1..Len(timers) : timers[i] = 0
    /\ searchRuns' = searchRuns + 1

SpecSearch ==
    /\ UiInit
    /\ [][NextSearch]_vars
    /\ WF_sinceInput(TimeAdvances)
    /\ WF_searchRuns(DueTimeoutRuns)

\* C39: the debounced function runs only when 300 ms have passed since the
\* last input event, then for the first time since that event, and it works
\* with the value the search box holds then; no burst is followed by two
\* runs, when no timeout is pending after a burst the function has run
\* once, and a pending timeout leads to this.
C39_DebouncedOncePerBurst ==
    /\ [][searchRuns' = searchRuns + 1 =>
             /\ sinceInput = DebounceWait
             /\ searchRuns = 0
             /\ uiSettings'.symbolSearch = symbolSearchValue
             /\ DisplayIsCurrent']_vars
    /\ [](searchRuns <= 1 /\ Len(timers) <= 1)
    /\ []((inputEvents > 0 /\ timers = <<>>) => searchRuns = 1)
    /\ (timers # <<>>) ~> (timers = <<>> /\ searchRuns = 1)

\* C39 witness: a burst of MaxInputs input events was followed by one run of
\* the debounced function, which filtered the stored list by the value of
\* the last event.
C39_Witness ==
    /\ inputEvents = MaxInputs /\ searchRuns = 1 /\ timers = <<>>
    /\ loaded /\ allFetchedPositions # <<>>
    /\ symbolSearchValue = <<" ", "B", "T">>
    /\ uiSettings.symbolSearch = symbolSearchValue
    /\ DisplayIsCurrent
====
